---- MODULE Spec2Model ----
(***************************************************************************)
(* Authentication and access-control layer of fastapi-cloudrun-kit:       *)
(* app/api/deps.py with the parts of app/services/auth.py,                 *)
(* app/services/firestore.py, app/models/user.py and app/core/logging.py   *)
(* that it calls, and the endpoints of app/api/v1/items.py,                *)
(* app/api/v1/users.py and app/api/v1/auth.py that decide on access,       *)
(* list or count items, refresh tokens, or change users, roles and claims. *)
(*                                                                         *)
(* A Python value is encoded as a record [t, s, m]: a scalar keeps its     *)
(* literal text in s, a dict keeps its items in m as a set of              *)
(* <<key, literal>> pairs.  custom_claims is a function from the claim     *)
(* names it holds to such values.  An Optional[...] is a sequence of       *)
(* length 0 (None) or 1.                                                   *)
(***************************************************************************)
EXTENDS Integers, FiniteSets, Sequences, TLC

VARIABLES
  authUsers,   \* identity provider (firebase_auth): uid -> user record
  profiles,    \* Firestore collection "users": uid -> profile document
  pc,          \* position of the current request in its dependency chain
  cred,        \* Optional credential of the current request
  guard,       \* the dependency the requested route declares
  faults,      \* collaborators that fail while this request is served
  principal,   \* Optional[UserInDB] produced by the resolver
  response,    \* what the caller receives
  audit,       \* security events written while serving this request
  items,       \* Firestore collection "items": item id -> item document
  interactions,\* documents added to "item_interactions" while serving this request
  route,       \* the endpoint the current request asks for, with its arguments
  tasks        \* interact_with_item requests served side by side: what each has read

vars == <<authUsers, profiles, pc, cred, guard, faults, principal, response, audit,
          items, interactions, route, tasks>>

-----------------------------------------------------------------------------
(* Bounds of the model *)

\* collaborators that may fail during one request
MaxFaults == 1

\* views of one item that are counted
MaxViews == 1

-----------------------------------------------------------------------------
(* Domains *)

UIDs == {"u1", "u2"}
RoleNames == {"admin", "moderator", "beta_tester"}
ClaimNames == {"x", "feature_flags"}
FlagNames == {"beta"}

Scalar(lit) == [t |-> "scalar", s |-> lit, m |-> {}]
Dict(pairs) == [t |-> "dict", s |-> "", m |-> pairs]

ScalarValues == {Scalar("True"), Scalar("v1"), Scalar("v2")}
FlagDicts == {Dict({}), Dict({<<"beta", "True">>}), Dict({<<"beta", "False">>})}
\* values a claim may hold: "x" a scalar; "feature_flags" a dict of flags or,
\* malformed, a scalar
ClaimValues(n) == IF n = "feature_flags" THEN FlagDicts \cup {Scalar("v1")} ELSE ScalarValues
ClaimMaps ==
  UNION {{c \in [D -> ScalarValues \cup FlagDicts] : \A n \in D : c[n] \in ClaimValues(n)} :
         D \in SUBSET ClaimNames}
EmptyClaims == [n \in {} |-> Scalar("True")]

\* bool(v) of Python for the encoded literals
Truthy(lit) == lit \notin {"False", "None", "0", ""}

\* UserInDB as the guards read it
Principals ==
  [uid : UIDs, roles : SUBSET RoleNames, custom_claims : ClaimMaps,
   disabled : BOOLEAN, email_verified : BOOLEAN]

None == <<>>
Some(v) == <<v>>

\* a uid the identity provider does not know; a uid without a profile document
NoUser == [exists |-> FALSE, disabled |-> FALSE, email_verified |-> FALSE,
           custom_claims |-> EmptyClaims]
NoProfile == [exists |-> FALSE, roles |-> {}, last_login_at |-> "None", fields |-> {}]

\* keys of a profile document that no writer of the users collection adds on
\* creating it, and that UserResponse requires
ProfileFields == {"roles", "profile", "preferences"}

\* a list of role names as a claim value
List(elems) == [t |-> "list", s |-> "", m |-> elems]

\* items collection: the ids in use and a document of it
ItemIds == {"i1", "i2"}
NoItem == [exists |-> FALSE, owner_uid |-> "", is_public |-> FALSE, view_count |-> 0]
Item(owner, public, views) ==
  [exists |-> TRUE, owner_uid |-> owner, is_public |-> public, view_count |-> views]

-----------------------------------------------------------------------------
(* Outcomes of a dependency: it returns, raises HTTPException(status,      *)
(* detail), or raises another exception.  events are the security events   *)
(* it wrote before ending.                                                  *)

Returned(evs) == [kind |-> "return", status |-> 200, detail |-> "", events |-> evs]
Http(st, det, evs) == [kind |-> "http", status |-> st, detail |-> det, events |-> evs]
Raised(cls, evs) == [kind |-> "exc", status |-> 500, detail |-> cls, events |-> evs]

Event(type, uid) == [event_type |-> type, user_id |-> uid]

NoResponse == [status |-> 0, detail |-> ""]
Response(st, det) == [status |-> st, detail |-> det]

\* global_exception_handler / http_exception_handler of app.main
AsResponse(out) ==
  IF out.kind = "http" THEN Response(out.status, out.detail)
  ELSE IF out.kind = "exc" THEN Response(500, "Internal Server Error")
  ELSE Response(200, "OK")

\* log_security_event(event_type, user_id) followed by raise HTTPException(st, det):
\* the event is handed to the logger, whose failure is not caught
LogThenRaise(ev, st, det, sinkOk) ==
  IF sinkOk THEN Http(st, det, <<ev>>) ELSE Raised("LoggingError", <<>>)

-----------------------------------------------------------------------------
(* Principal resolver: get_current_user and what it calls.                  *)
(* flt is the set of collaborators failing during the request:              *)
(*   "verifier"       verify_id_token ends in an unclassified error         *)
(*   "identity"       firebase_auth.get_user ends in an error               *)
(*   "profile_read"   FirestoreService.get_document raises                  *)
(*   "profile_create" FirestoreService.create_document raises               *)
(*   "last_seen"      FirestoreService.update_document raises               *)
(*   "audit"          the security logger raises                            *)

Faults == {"verifier", "identity", "profile_read", "profile_create", "last_seen", "audit"}

TokenStatus == {"valid", "invalid", "expired", "revoked"}
Tokens == [uid : UIDs, status : TokenStatus]

\* firebase_auth.verify_id_token: "" when it returns the decoded token, else the
\* class of the exception it raises
verify_id_token(token, flt) ==
  IF "verifier" \in flt THEN "Exception"
  ELSE IF token.status = "invalid" THEN "InvalidIdTokenError"
  ELSE IF token.status = "expired" THEN "ExpiredIdTokenError"
  ELSE IF token.status = "revoked" THEN "RevokedIdTokenError"
  ELSE ""

\* isinstance(exception of class cls, base), as an except clause tests it:
\* ExpiredIdTokenError and RevokedIdTokenError derive from InvalidIdTokenError,
\* every class derives from Exception
IsInstance(cls, base) ==
  \/ cls = base
  \/ base = "Exception"
  \/ (base = "InvalidIdTokenError" /\ cls \in {"ExpiredIdTokenError", "RevokedIdTokenError"})

\* profile document that get_user_by_uid writes for a user that has none
CreatedProfile == [exists |-> TRUE, roles |-> {}, last_login_at |-> "None", fields |-> {}]

\* get_user_by_uid going on with an empty profile when the profile store fails
get_user_by_uid_lenient(uid, users, profs, flt) ==
  LET fail == [exc |-> "HTTPException", found |-> FALSE, has_id |-> FALSE,
               roles |-> {}, profiles |-> profs]
  IN  IF "identity" \in flt THEN fail
      ELSE IF ~users[uid].exists
      THEN [fail EXCEPT !.exc = ""]
      ELSE IF "profile_read" \in flt \/ (~profs[uid].exists /\ "profile_create" \in flt)
      THEN [exc |-> "", found |-> TRUE, has_id |-> TRUE, roles |-> {}, profiles |-> profs]
      ELSE IF ~profs[uid].exists
      THEN [exc |-> "", found |-> TRUE, has_id |-> FALSE, roles |-> {},
            profiles |-> [profs EXCEPT ![uid] = CreatedProfile]]
      ELSE [exc |-> "", found |-> TRUE, has_id |-> TRUE, roles |-> profs[uid].roles,
            profiles |-> profs]

\* AuthService.get_user_by_uid: exc is "" when it returns; found tells user_data
\* from None; has_id whether user_data carries the document id
get_user_by_uid(uid, users, profs, flt) ==
  LET fail == [exc |-> "HTTPException", found |-> FALSE, has_id |-> FALSE,
               roles |-> {}, profiles |-> profs]
  IN  IF "identity" \in flt THEN fail
      ELSE IF ~users[uid].exists
      THEN [fail EXCEPT !.exc = ""]
      ELSE IF "profile_read" \in flt THEN fail
      ELSE IF ~profs[uid].exists
      THEN IF "profile_create" \in flt THEN fail
           ELSE [exc |-> "", found |-> TRUE, has_id |-> FALSE, roles |-> {},
                 profiles |-> [profs EXCEPT ![uid] = CreatedProfile]]
      ELSE [exc |-> "", found |-> TRUE, has_id |-> TRUE, roles |-> profs[uid].roles,
            profiles |-> profs]

\* the merged user_data as UserInDB
UserInDB(uid, users, roles) ==
  [uid |-> uid, roles |-> roles, custom_claims |-> users[uid].custom_claims,
   disabled |-> users[uid].disabled, email_verified |-> users[uid].email_verified]

\* the try block of get_current_user: exc is "" when it reaches its return,
\* else the class of the exception that leaves the block.  An event is in
\* events once log_security_event has written it.  UserInDB.from_firestore_doc
\* requires the field id, which get_document adds to a document it read and
\* which the user_data of a profile created in this call does not have.
TryBlock(token, users, profs, flt) ==
  LET uid == token.uid
      verdict == verify_id_token(token, flt)
      got == get_user_by_uid(uid, users, profs, flt)
      body(exc, evs, user, ps) == [exc |-> exc, events |-> evs, user |-> user, profiles |-> ps]
  IN  IF verdict # "" THEN body(verdict, <<>>, None, profs)
      ELSE IF got.exc # "" THEN body(got.exc, <<>>, None, got.profiles)
      ELSE IF ~got.found
      THEN IF "audit" \in flt
           THEN body("LoggingError", <<>>, None, got.profiles)
           ELSE body("HTTPException", <<Event("user_not_found", uid)>>, None, got.profiles)
      ELSE IF users[uid].disabled
      THEN IF "audit" \in flt
           THEN body("LoggingError", <<>>, None, got.profiles)
           ELSE body("HTTPException", <<Event("disabled_user_access_attempt", uid)>>,
                     None, got.profiles)
      ELSE IF "last_seen" \in flt
      THEN body("Exception", <<>>, None, got.profiles)
      ELSE LET touched == [got.profiles EXCEPT ![uid].last_login_at = "SERVER_TIMESTAMP"]
           IN  IF ~got.has_id
               THEN body("ValidationError", <<>>, None, touched)
               ELSE body("", <<>>, Some(UserInDB(uid, users, got.roles)), touched)

\* the except clauses of get_current_user, tried in the order written
ExceptClauses(exc, sinkOk) ==
  IF IsInstance(exc, "InvalidIdTokenError")
  THEN LogThenRaise(Event("invalid_token", "None"),
                    401, "Invalid authentication token", sinkOk)
  ELSE IF IsInstance(exc, "ExpiredIdTokenError")
  THEN LogThenRaise(Event("expired_token", "None"),
                    401, "Authentication token has expired", sinkOk)
  ELSE IF IsInstance(exc, "RevokedIdTokenError")
  THEN LogThenRaise(Event("revoked_token", "None"),
                    401, "Authentication token has been revoked", sinkOk)
  ELSE Http(401, "Authentication failed", <<>>)

\* get_current_user: out is how the call ends, user the UserInDB it returns,
\* profiles the users collection it leaves behind
get_current_user(token, users, profs, flt) ==
  LET b == TryBlock(token, users, profs, flt)
      h == ExceptClauses(b.exc, "audit" \notin flt)
  IN  [out |-> IF b.exc = "" THEN Returned(b.events)
               ELSE [h EXCEPT !.events = b.events \o h.events],
       user |-> b.user,
       profiles |-> b.profiles]

\* get_optional_current_user taking the account of the token as it is, without
\* the checks of get_current_user
get_optional_current_user_unchecked(credentials, users, profs, flt) ==
  IF credentials = None
  THEN [out |-> Returned(<<>>), user |-> None, profiles |-> profs]
  ELSE [out |-> Returned(<<>>),
        user |-> Some(UserInDB(credentials[1].uid, users, profs[credentials[1].uid].roles)),
        profiles |-> profs]

\* get_optional_current_user without its except clauses: what get_current_user
\* raises reaches the caller
get_optional_current_user_reraise(credentials, users, profs, flt) ==
  IF credentials = None
  THEN [out |-> Returned(<<>>), user |-> None, profiles |-> profs]
  ELSE get_current_user(credentials[1], users, profs, flt)

\* get_optional_current_user: None without credentials; otherwise the user of
\* get_current_user, and None whenever that raises
get_optional_current_user(credentials, users, profs, flt) ==
  IF credentials = None
  THEN [out |-> Returned(<<>>), user |-> None, profiles |-> profs]
  ELSE LET r == get_current_user(credentials[1], users, profs, flt)
       IN  [out |-> Returned(r.out.events),
            user |-> IF r.out.kind = "return" THEN r.user ELSE None,
            profiles |-> r.profiles]

-----------------------------------------------------------------------------
(* Guards of app/api/deps.py.  sinkOk tells whether the security logger     *)
(* accepts events during this request.                                      *)

HasKey(claims, name) == name \in DOMAIN claims

\* dict.get(key, default) on an encoded dict
DictGet(d, key, default) ==
  IF \E p \in d.m : p[1] = key
  THEN (CHOOSE p \in d.m : p[1] = key)[2]
  ELSE default

\* get_current_active_user without its check of the disabled flag
active_user_unchecked(current_user, sinkOk) == Returned(<<>>)

get_current_active_user(current_user, sinkOk) ==
  IF current_user.disabled
  THEN LogThenRaise(Event("disabled_user_access_attempt", current_user.uid),
                    403, "Account is disabled", sinkOk)
  ELSE Returned(<<>>)

get_current_verified_user(current_user, sinkOk) ==
  IF ~current_user.email_verified
  THEN LogThenRaise(Event("unverified_user_access_attempt", current_user.uid),
                    403, "Email verification required", sinkOk)
  ELSE Returned(<<>>)

\* role_checker asking for every required role
role_checker_all(required_roles, current_user, sinkOk) ==
  IF ~(\A role \in required_roles : role \in current_user.roles)
  THEN LogThenRaise(Event("insufficient_permissions", current_user.uid),
                    403, "Insufficient permissions", sinkOk)
  ELSE Returned(<<>>)

role_checker(required_roles, current_user, sinkOk) ==
  IF ~(\E role \in required_roles : role \in current_user.roles)
  THEN LogThenRaise(Event("insufficient_permissions", current_user.uid),
                    403, "Insufficient permissions", sinkOk)
  ELSE Returned(<<>>)

require_admin == {"admin"}

require_moderator == {"admin", "moderator"}

\* claim_checker comparing user_claims.get(claim_name) with the expected value:
\* an absent key is reported like a wrong value
claim_checker_get(claim_name, claim_value, current_user, sinkOk) ==
  LET user_claims == current_user.custom_claims
  IN  IF ~HasKey(user_claims, claim_name) \/ user_claims[claim_name] # claim_value
      THEN LogThenRaise(Event("invalid_custom_claim", current_user.uid),
                        403, "Invalid claim value", sinkOk)
      ELSE Returned(<<>>)

claim_checker(claim_name, claim_value, current_user, sinkOk) ==
  LET user_claims == current_user.custom_claims
  IN  IF ~HasKey(user_claims, claim_name)
      THEN LogThenRaise(Event("missing_custom_claim", current_user.uid),
                        403, "Missing required claim", sinkOk)
      ELSE IF user_claims[claim_name] # claim_value
      THEN LogThenRaise(Event("invalid_custom_claim", current_user.uid),
                        403, "Invalid claim value", sinkOk)
      ELSE Returned(<<>>)

\* validate_resource_access letting a moderator in whatever allow_moderator says
validate_resource_access_mod(resource_owner_uid, current_user, allow_admin, allow_moderator) ==
  IF resource_owner_uid = current_user.uid THEN TRUE
  ELSE IF allow_admin /\ "admin" \in current_user.roles THEN TRUE
  ELSE IF "moderator" \in current_user.roles THEN TRUE
  ELSE FALSE

validate_resource_access(resource_owner_uid, current_user, allow_admin, allow_moderator) ==
  IF resource_owner_uid = current_user.uid THEN TRUE
  ELSE IF allow_admin /\ "admin" \in current_user.roles THEN TRUE
  ELSE IF allow_moderator /\ "moderator" \in current_user.roles THEN TRUE
  ELSE FALSE

access_checker(resource_owner_uid, allow_admin, allow_moderator, current_user, sinkOk) ==
  IF ~validate_resource_access(resource_owner_uid, current_user, allow_admin, allow_moderator)
  THEN LogThenRaise(Event("unauthorized_resource_access", current_user.uid),
                    403, "You don't have permission to access this resource", sinkOk)
  ELSE Returned(<<>>)

\* check_feature_flag as its comment sketches it: "return True for all features"
check_feature_flag_all(feature_name, current_user) == [raised |-> FALSE, enabled |-> TRUE]

\* check_feature_flag(feature_name, current_user): current_user is Optional.
\* raised: the call ended in AttributeError; enabled: truth of the returned value
check_feature_flag(feature_name, current_user) ==
  IF current_user # None /\ "beta_tester" \in current_user[1].roles
  THEN [raised |-> FALSE, enabled |-> TRUE]
  ELSE IF current_user # None /\ DOMAIN current_user[1].custom_claims # {}
  THEN LET claims == current_user[1].custom_claims
           feature_flags == IF HasKey(claims, "feature_flags")
                            THEN claims["feature_flags"] ELSE Dict({})
       IN  IF feature_flags.t # "dict"
           THEN [raised |-> TRUE, enabled |-> FALSE]
           ELSE [raised |-> FALSE,
                 enabled |-> Truthy(DictGet(feature_flags, feature_name, "False"))]
  ELSE [raised |-> FALSE, enabled |-> FALSE]

feature_checker(feature_name, current_user, sinkOk) ==
  LET r == check_feature_flag(feature_name, Some(current_user))
  IN  IF r.raised THEN Raised("AttributeError", <<>>)
      ELSE IF ~r.enabled
      THEN LogThenRaise(Event("feature_flag_denied", current_user.uid),
                        403, "Feature is not available", sinkOk)
      ELSE Returned(<<>>)

-----------------------------------------------------------------------------
(* The dependency a route declares *)

GuardOf(name, roles, claim, value, owner, aa, am, flag) ==
  [name |-> name, roles |-> roles, claim |-> claim, value |-> value, owner |-> owner,
   allow_admin |-> aa, allow_moderator |-> am, flag |-> flag]

Plain(name) == GuardOf(name, {}, "", Scalar("True"), "", TRUE, FALSE, "")

StrictGuards ==
  {Plain("active"), Plain("verified")}
  \cup {GuardOf("roles", r, "", Scalar("True"), "", TRUE, FALSE, "") : r \in SUBSET RoleNames}
  \cup {GuardOf("claim", {}, c, v, "", TRUE, FALSE, "") : c \in ClaimNames, v \in ScalarValues}
  \cup {GuardOf("resource", {}, "", Scalar("True"), o, aa, am, "") :
          o \in UIDs, aa \in BOOLEAN, am \in BOOLEAN}
  \cup {GuardOf("feature", {}, "", Scalar("True"), "", TRUE, FALSE, f) :
          f \in FlagNames \cup {"gamma"}}

Guards == StrictGuards \cup {Plain("optional")}

\* the endpoint a request asks for: its path parameters (item_id, user_uid) and
\* the fields of its body that the handlers below read
Route(endpoint, item_id, user_uid, is_public, roles, custom_claims) ==
  [endpoint |-> endpoint, item_id |-> item_id, user_uid |-> user_uid,
   is_public |-> is_public, roles |-> roles, custom_claims |-> custom_claims]

\* a route whose handler is not looked into
NoRoute == Route("", "", "", None, None, None)

SinkOk == "audit" \notin faults

\* a dependency chain that also writes a security event when it lets the
\* principal through
Continue_audit_grants(out, nextPc) ==
  /\ audit' = audit \o (IF out.kind = "return"
                        THEN <<Event("access_granted", principal[1].uid)>>
                        ELSE out.events)
  /\ IF out.kind = "return"
     THEN pc' = nextPc /\ response' = response
     ELSE pc' = "done" /\ response' = AsResponse(out)
  /\ UNCHANGED <<authUsers, profiles, cred, guard, faults, principal, items, interactions, route, tasks>>

\* a dependency ended: go on along the chain, or answer the caller
Continue(out, nextPc) ==
  /\ audit' = audit \o out.events
  /\ IF out.kind = "return"
     THEN pc' = nextPc /\ response' = response
     ELSE pc' = "done" /\ response' = AsResponse(out)
  /\ UNCHANGED <<authUsers, profiles, cred, guard, faults, principal, items, interactions, route, tasks>>

GetCurrentActiveUser ==
  /\ pc = "resolved"
  /\ Continue(get_current_active_user(principal[1], SinkOk),
              IF guard.name = "active" THEN "handler" ELSE "active")

GetCurrentVerifiedUser ==
  /\ pc = "active" /\ guard.name = "verified"
  /\ Continue(get_current_verified_user(principal[1], SinkOk), "handler")

RoleChecker ==
  /\ pc = "active" /\ guard.name = "roles"
  /\ Continue(role_checker(guard.roles, principal[1], SinkOk), "handler")

ClaimChecker ==
  /\ pc = "active" /\ guard.name = "claim"
  /\ Continue(claim_checker(guard.claim, guard.value, principal[1], SinkOk), "handler")

AccessChecker ==
  /\ pc = "active" /\ guard.name = "resource"
  /\ Continue(access_checker(guard.owner, guard.allow_admin, guard.allow_moderator,
                             principal[1], SinkOk), "handler")

FeatureChecker ==
  /\ pc = "active" /\ guard.name = "feature"
  /\ Continue(feature_checker(guard.flag, principal[1], SinkOk), "handler")

\* the route's handler runs with the principal its dependency returned
Handler ==
  /\ pc = "handler" /\ route = NoRoute
  /\ pc' = "done"
  /\ response' = Response(200, "OK")
  /\ UNCHANGED <<authUsers, profiles, cred, guard, faults, principal, audit, items, interactions, route, tasks>>

GuardSteps ==
  \/ GetCurrentActiveUser
  \/ GetCurrentVerifiedUser
  \/ RoleChecker
  \/ ClaimChecker
  \/ AccessChecker
  \/ FeatureChecker
  \/ Handler

-----------------------------------------------------------------------------
(* GuardSpec: every guard applied to every principal, the security logger  *)
(* working.                                                                 *)

GuardInit ==
  /\ authUsers = [u \in UIDs |-> NoUser]
  /\ profiles = [u \in UIDs |-> NoProfile]
  /\ pc = "resolved"
  /\ cred = None
  /\ guard \in StrictGuards
  /\ faults = {}
  /\ principal \in {Some(u) : u \in Principals}
  /\ response = NoResponse
  /\ audit = <<>>
  /\ items = [i \in ItemIds |-> NoItem]
  /\ interactions = <<>>
  /\ route = NoRoute
  /\ tasks = <<>>

GuardNext == GuardSteps

GuardSpec == GuardInit /\ [][GuardNext]_vars

-----------------------------------------------------------------------------
(* Spec: requests served one after another, from a credential to a         *)
(* response, with collaborators that may fail.                              *)

\* at most MaxFaults collaborators fail during one request
FaultSets == {f \in SUBSET Faults : Cardinality(f) <= MaxFaults}

\* accounts and profile documents present when the service starts: "u1" may be
\* registered, "u2" is a uid the stores do not know
SeedClaims ==
  {EmptyClaims,
   [n \in {"x"} |-> Scalar("v2")],
   [n \in ClaimNames |-> IF n = "x" THEN Scalar("v1") ELSE Dict({<<"beta", "True">>})]}
SeedUsers ==
  {NoUser} \cup [exists : {TRUE}, disabled : BOOLEAN, email_verified : BOOLEAN,
                 custom_claims : SeedClaims]
SeedProfiles ==
  {NoProfile} \cup [exists : {TRUE}, roles : {{}, {"admin"}, {"moderator"}, {"beta_tester"}},
                     last_login_at : {"None"}, fields : {ProfileFields}]

\* the dependencies of the routes that are requested
RouteGuards ==
  {Plain("active"), Plain("verified"), Plain("optional"),
   GuardOf("roles", require_admin, "", Scalar("True"), "", TRUE, FALSE, ""),
   GuardOf("claim", {}, "x", Scalar("v1"), "", TRUE, FALSE, ""),
   GuardOf("claim", {}, "x", Scalar("v2"), "", TRUE, FALSE, ""),
   GuardOf("resource", {}, "", Scalar("True"), "u2", TRUE, FALSE, ""),
   GuardOf("feature", {}, "", Scalar("True"), "", TRUE, FALSE, "beta")}

Init ==
  /\ authUsers \in {[u \in UIDs |-> IF u = "u1" THEN a ELSE NoUser] : a \in SeedUsers}
  /\ profiles \in {[u \in UIDs |-> IF u = "u1" THEN p ELSE NoProfile] : p \in SeedProfiles}
  /\ pc = "idle"
  /\ cred = None
  /\ guard = Plain("active")
  /\ faults = {}
  /\ principal = None
  /\ response = NoResponse
  /\ audit = <<>>
  /\ items = [i \in ItemIds |-> NoItem]
  /\ interactions = <<>>
  /\ route = NoRoute
  /\ tasks = <<>>

\* a request arrives: its credential, the route it asks for, and the
\* collaborators that will fail while it is served
NewRequest ==
  /\ pc = "idle"
  /\ pc' = "start"
  /\ cred' \in {None} \cup {Some(t) : t \in Tokens}
  /\ guard' \in RouteGuards
  /\ faults' \in FaultSets
  /\ principal' = None
  /\ response' = NoResponse
  /\ audit' = <<>>
  /\ UNCHANGED <<authUsers, profiles, items, interactions, route, tasks>>

\* HTTPBearer answering a request without credentials 401
Security_401 ==
  /\ pc = "start" /\ guard \in StrictGuards /\ cred = None
  /\ pc' = "done"
  /\ response' = Response(401, "Not authenticated")
  /\ UNCHANGED <<authUsers, profiles, cred, guard, faults, principal, audit, items, interactions, route, tasks>>

\* security = HTTPBearer(): a request without credentials is answered 403
Security ==
  /\ pc = "start" /\ guard \in StrictGuards /\ cred = None
  /\ pc' = "done"
  /\ response' = Response(403, "Not authenticated")
  /\ UNCHANGED <<authUsers, profiles, cred, guard, faults, principal, audit, items, interactions, route, tasks>>

\* a resolver ended: its user goes on along the chain, or the caller is answered
Resolved(r, nextPc) ==
  /\ audit' = audit \o r.out.events
  /\ profiles' = r.profiles
  /\ IF r.out.kind = "return"
     THEN pc' = nextPc /\ principal' = r.user /\ response' = response
     ELSE pc' = "done" /\ principal' = None /\ response' = AsResponse(r.out)
  /\ UNCHANGED <<authUsers, cred, guard, faults, items, interactions, route, tasks>>

GetCurrentUser ==
  /\ pc = "start" /\ guard \in StrictGuards /\ cred # None
  /\ Resolved(get_current_user(cred[1], authUsers, profiles, faults), "resolved")

GetOptionalCurrentUser ==
  /\ pc = "start" /\ guard.name = "optional"
  /\ Resolved(get_optional_current_user(cred, authUsers, profiles, faults), "handler")

\* the response is sent; the principal and the rest of the request are dropped
EndRequest ==
  /\ pc = "done"
  /\ pc' = "idle"
  /\ cred' = None
  /\ guard' = Plain("active")
  /\ faults' = {}
  /\ principal' = None
  /\ response' = NoResponse
  /\ audit' = <<>>
  /\ interactions' = <<>>
  /\ route' = NoRoute
  /\ UNCHANGED <<authUsers, profiles, items, tasks>>

Next ==
  \/ NewRequest
  \/ EndRequest
  \/ Security
  \/ GetCurrentUser
  \/ GetOptionalCurrentUser
  \/ GuardSteps

Spec == Init /\ [][Next]_vars

-----------------------------------------------------------------------------
(* Item endpoints of app/api/v1/items.py.  its is the items collection,    *)
(* flt the failing collaborators:                                           *)
(*   "item_read"   get_document on the items collection raises              *)
(*   "item_write"  create_document, update_document and delete_document on  *)
(*                 the items collection raise                               *)
(* A detail that the code ends with the text of the caught exception is     *)
(* kept up to that text.                                                    *)

ItemFaults == {"item_read", "item_write"}

\* a document of the item_interactions collection
Interaction(item_id, user_uid, interaction_type) ==
  [item_id |-> item_id, user_uid |-> user_uid, interaction_type |-> interaction_type]

\* how a handler ends: its outcome, the items collection and the interaction
\* documents it leaves behind
Ended(out, its, recs) == [out |-> out, items |-> its, interactions |-> recs]

\* get_item showing every item to whoever is signed in
get_item_signed_in(item_id, current_user, its, flt) ==
  LET item_data == its[item_id]
      uid == IF current_user = None THEN "None" ELSE current_user[1].uid
      counted == current_user # None /\ item_data.owner_uid # uid
  IN  IF "item_read" \in flt
      THEN Ended(Http(500, "Failed to get item", <<>>), its, <<>>)
      ELSE IF ~item_data.exists
      THEN Ended(Http(404, "Item not found", <<>>), its, <<>>)
      ELSE IF ~(item_data.is_public \/ current_user # None)
      THEN Ended(Http(403, "You don't have permission to view this item", <<>>), its, <<>>)
      ELSE IF counted /\ "item_write" \in flt
      THEN Ended(Http(500, "Failed to get item", <<>>), its, <<>>)
      ELSE Ended(Returned(<<>>),
                 IF counted THEN [its EXCEPT ![item_id].view_count = @ + 1] ELSE its,
                 IF current_user # None
                 THEN <<Interaction(item_id, uid, "view")>> ELSE <<>>)

\* get_item, current_user being Optional.  record_item_interaction catches
\* whatever its own write raises.
get_item(item_id, current_user, its, flt) ==
  LET item_data == its[item_id]
      uid == IF current_user = None THEN "None" ELSE current_user[1].uid
      is_owner == current_user # None /\ item_data.owner_uid = uid
      is_public == item_data.is_public
      is_admin == current_user # None /\ "admin" \in current_user[1].roles
      is_moderator == current_user # None /\ "moderator" \in current_user[1].roles
      counted == current_user # None /\ item_data.owner_uid # uid
  IN  IF "item_read" \in flt
      THEN Ended(Http(500, "Failed to get item", <<>>), its, <<>>)
      ELSE IF ~item_data.exists
      THEN Ended(Http(404, "Item not found", <<>>), its, <<>>)
      ELSE IF ~(is_public \/ is_owner \/ is_admin \/ is_moderator)
      THEN Ended(Http(403, "You don't have permission to view this item", <<>>), its, <<>>)
      ELSE IF counted /\ "item_write" \in flt
      THEN Ended(Http(500, "Failed to get item", <<>>), its, <<>>)
      ELSE Ended(Returned(<<>>),
                 IF counted THEN [its EXCEPT ![item_id].view_count = @ + 1] ELSE its,
                 IF current_user # None
                 THEN <<Interaction(item_id, uid, "view")>> ELSE <<>>)

\* create_item: item_id is what generate_id() returned, body_is_public the
\* is_public of the request body
create_item(item_id, body_is_public, current_user, its, flt) ==
  IF "item_write" \in flt
  THEN Ended(Http(400, "Failed to create item", <<>>), its, <<>>)
  ELSE Ended(Returned(<<>>),
             [its EXCEPT ![item_id] = Item(current_user.uid, body_is_public, 0)], <<>>)

\* update_item: body_is_public is Optional, None when the body does not set it
update_item(item_id, body_is_public, current_user, its, flt) ==
  LET item_data == its[item_id]
  IN  IF "item_read" \in flt
      THEN Ended(Http(400, "Failed to update item", <<>>), its, <<>>)
      ELSE IF ~item_data.exists
      THEN Ended(Http(404, "Item not found", <<>>), its, <<>>)
      ELSE IF ~validate_resource_access(item_data.owner_uid, current_user, TRUE, TRUE)
      THEN Ended(Http(403, "You don't have permission to update this item", <<>>),
                 its, <<>>)
      ELSE IF "item_write" \in flt
      THEN Ended(Http(400, "Failed to update item", <<>>), its, <<>>)
      ELSE Ended(Returned(<<>>),
                 IF body_is_public = None THEN its
                 ELSE [its EXCEPT ![item_id].is_public = body_is_public[1]],
                 <<>>)

delete_item(item_id, current_user, its, flt) ==
  LET item_data == its[item_id]
  IN  IF "item_read" \in flt
      THEN Ended(Http(400, "Failed to delete item", <<>>), its, <<>>)
      ELSE IF ~item_data.exists
      THEN Ended(Http(404, "Item not found", <<>>), its, <<>>)
      ELSE IF ~validate_resource_access(item_data.owner_uid, current_user, TRUE, TRUE)
      THEN Ended(Http(403, "You don't have permission to delete this item", <<>>),
                 its, <<>>)
      ELSE IF "item_write" \in flt
      THEN Ended(Http(400, "Failed to delete item", <<>>), its, <<>>)
      ELSE Ended(Returned(<<>>), [its EXCEPT ![item_id] = NoItem], <<>>)

\* the dependency each endpoint declares for current_user
Depends(endpoint) ==
  IF endpoint = "get_item" THEN Plain("optional")
  ELSE IF endpoint \in {"create_user", "update_user", "assign_roles", "update_custom_claims",
                        "delete_user", "bulk_user_action"}
  THEN GuardOf("roles", require_admin, "", Scalar("True"), "", TRUE, FALSE, "")
  ELSE Plain("active")

\* a handler of the items router ended: the caller is answered
ItemAnswer(r) ==
  /\ pc' = "done"
  /\ response' = AsResponse(r.out)
  /\ audit' = audit \o r.out.events
  /\ items' = r.items
  /\ interactions' = r.interactions
  /\ UNCHANGED <<authUsers, profiles, cred, guard, faults, principal, route, tasks>>

GetItem ==
  /\ pc = "handler" /\ route.endpoint = "get_item"
  /\ ItemAnswer(get_item(route.item_id, principal, items, faults))

\* generate_id() returns an id that no document has
CreateItem ==
  /\ pc = "handler" /\ route.endpoint = "create_item"
  /\ \E item_id \in {i \in ItemIds : ~items[i].exists} :
       ItemAnswer(create_item(item_id, route.is_public[1], principal[1], items, faults))

UpdateItem ==
  /\ pc = "handler" /\ route.endpoint = "update_item"
  /\ ItemAnswer(update_item(route.item_id, route.is_public, principal[1], items, faults))

DeleteItem ==
  /\ pc = "handler" /\ route.endpoint = "delete_item"
  /\ ItemAnswer(delete_item(route.item_id, principal[1], items, faults))

-----------------------------------------------------------------------------
(* ItemsSpec: requests to the items router, served one after another.       *)

\* the credentials of the requests to the routers: none, or a token of "u1" or
\* of "u2" that the verifier accepts
ValidCreds == {None} \cup {Some([uid |-> u, status |-> "valid"]) : u \in UIDs}

ItemRoutes ==
  {Route("get_item", i, "", None, None, None) : i \in ItemIds}
  \cup {Route("create_item", "", "", Some(b), None, None) : b \in BOOLEAN}
  \cup {Route("update_item", i, "", b, None, None) :
          i \in ItemIds, b \in {None, Some(TRUE), Some(FALSE)}}
  \cup {Route("delete_item", i, "", None, None, None) : i \in ItemIds}

ItemFaultSets == {f \in SUBSET ItemFaults : Cardinality(f) <= MaxFaults}

\* both accounts are registered and have signed in before; "u1" holds no role,
\* "admin" or "moderator"; "u2" owns one item
ItemsInit ==
  /\ authUsers = [u \in UIDs |-> [exists |-> TRUE, disabled |-> FALSE,
                                  email_verified |-> TRUE, custom_claims |-> EmptyClaims]]
  /\ profiles \in {[u \in UIDs |-> [exists |-> TRUE,
                                    roles |-> IF u = "u1" THEN r ELSE {},
                                    last_login_at |-> "SERVER_TIMESTAMP",
                                    fields |-> ProfileFields]] :
                   r \in {{}, {"admin"}, {"moderator"}}}
  /\ items \in {[i \in ItemIds |-> IF i = "i1" THEN Item("u2", b, 0) ELSE NoItem] :
                b \in BOOLEAN}
  /\ pc = "idle"
  /\ cred = None
  /\ guard = Plain("active")
  /\ faults = {}
  /\ principal = None
  /\ response = NoResponse
  /\ audit = <<>>
  /\ interactions = <<>>
  /\ route = NoRoute
  /\ tasks = <<>>

\* a request to the items router arrives.  An item is created while an id is
\* free, and a view is counted while the item's counter is below MaxViews.
ItemsRequest ==
  /\ pc = "idle"
  /\ pc' = "start"
  /\ cred' \in ValidCreds
  /\ route' \in ItemRoutes
  /\ route'.endpoint = "create_item" => \E i \in ItemIds : ~items[i].exists
  /\ (route'.endpoint = "get_item" /\ cred' # None
        /\ cred'[1].uid # items[route'.item_id].owner_uid)
       => items[route'.item_id].view_count < MaxViews
  /\ guard' = Depends(route'.endpoint)
  /\ faults' \in ItemFaultSets
  /\ principal' = None
  /\ response' = NoResponse
  /\ audit' = <<>>
  /\ interactions' = <<>>
  /\ UNCHANGED <<authUsers, profiles, items, tasks>>

ItemsNext ==
  \/ ItemsRequest
  \/ EndRequest
  \/ Security
  \/ GetCurrentUser
  \/ GetOptionalCurrentUser
  \/ GetCurrentActiveUser
  \/ GetItem
  \/ CreateItem
  \/ UpdateItem
  \/ DeleteItem

ItemsSpec == ItemsInit /\ [][ItemsNext]_vars

-----------------------------------------------------------------------------
(* User endpoints of app/api/v1/users.py and the AuthService calls behind   *)
(* them.  users is the identity provider, profs the users collection.       *)

\* a security event that also names the account acted upon
TargetEvent(type, uid, target) ==
  [event_type |-> type, user_id |-> uid, target_user |-> target]

\* how a handler of the users router ends: its outcome and the stores it
\* leaves behind
UserEnded(out, users, profs) == [out |-> out, users |-> users, profiles |-> profs]

\* UserResponse(**user_data) validates: the merged profile document holds roles,
\* profile and preferences
ValidUserResponse(uid, profs) == profs[uid].fields = ProfileFields

\* AuthService.update_user adding the given claims to those the account has
auth_update_user_merging(uid, custom_claims, roles, users, profs, flt) ==
  LET end(exc, evs, us, ps, found) ==
        [exc |-> exc, events |-> evs, users |-> us, profiles |-> ps, found |-> found]
      claimed == IF custom_claims = None THEN users
                 ELSE [users EXCEPT ![uid].custom_claims =
                         [n \in DOMAIN @ \cup DOMAIN custom_claims[1] |->
                            IF n \in DOMAIN custom_claims[1] THEN custom_claims[1][n]
                            ELSE @[n]]]
      written == IF roles = None THEN profs
                 ELSE [profs EXCEPT ![uid].roles = roles[1],
                                    ![uid].fields = @ \cup {"roles"}]
      got == get_user_by_uid(uid, claimed, written, flt)
  IN  IF custom_claims # None /\ ("identity" \in flt \/ ~users[uid].exists)
      THEN end("HTTPException", <<>>, users, profs, FALSE)
      ELSE IF (custom_claims # None \/ roles # None)
              /\ ("last_seen" \in flt \/ ~profs[uid].exists)
      THEN end("HTTPException", <<>>, claimed, profs, FALSE)
      ELSE IF "audit" \in flt
      THEN end("HTTPException", <<>>, claimed, written, FALSE)
      ELSE IF got.exc # ""
      THEN end("HTTPException", <<Event("user_updated", uid)>>, claimed, got.profiles, FALSE)
      ELSE end("", <<Event("user_updated", uid)>>, claimed, got.profiles, got.found)

\* AuthService.update_user(uid, custom_claims=..., profile_data={"roles": ...}),
\* both Optional.  exc is "" when it returns; found and valid describe the
\* user_data it returns; the stores keep what was written before a failure.
auth_update_user(uid, custom_claims, roles, users, profs, flt) ==
  LET end(exc, evs, us, ps, found) ==
        [exc |-> exc, events |-> evs, users |-> us, profiles |-> ps, found |-> found]
      claimed == IF custom_claims = None THEN users
                 ELSE [users EXCEPT ![uid].custom_claims = custom_claims[1]]
      written == IF roles = None THEN profs
                 ELSE [profs EXCEPT ![uid].roles = roles[1],
                                    ![uid].fields = @ \cup {"roles"}]
      got == get_user_by_uid(uid, claimed, written, flt)
  IN  IF custom_claims # None /\ ("identity" \in flt \/ ~users[uid].exists)
      THEN end("HTTPException", <<>>, users, profs, FALSE)
      ELSE IF (custom_claims # None \/ roles # None)
              /\ ("last_seen" \in flt \/ ~profs[uid].exists)
      THEN end("HTTPException", <<>>, claimed, profs, FALSE)
      ELSE IF "audit" \in flt
      THEN end("HTTPException", <<>>, claimed, written, FALSE)
      ELSE IF got.exc # ""
      THEN end("HTTPException", <<Event("user_updated", uid)>>, claimed, got.profiles, FALSE)
      ELSE end("", <<Event("user_updated", uid)>>, claimed, got.profiles, got.found)

\* assign_roles without its own security event
assign_roles_unlogged(user_uid, roles, current_user, users, profs, flt) ==
  LET u == auth_update_user(user_uid, Some([n \in {"roles"} |-> List(roles)]), Some(roles),
                            users, profs, flt)
  IN  IF u.exc # "" \/ "audit" \in flt
      THEN UserEnded(Http(400, "Failed to assign roles", u.events), u.users, u.profiles)
      ELSE UserEnded(Returned(u.events), u.users, u.profiles)

assign_roles(user_uid, roles, current_user, users, profs, flt) ==
  LET u == auth_update_user(user_uid, Some([n \in {"roles"} |-> List(roles)]), Some(roles),
                            users, profs, flt)
  IN  IF u.exc # "" \/ "audit" \in flt
      THEN UserEnded(Http(400, "Failed to assign roles", u.events), u.users, u.profiles)
      ELSE UserEnded(Returned(u.events \o
                       <<TargetEvent("roles_assigned", current_user.uid, user_uid)>>),
                     u.users, u.profiles)

update_custom_claims(user_uid, custom_claims, current_user, users, profs, flt) ==
  LET u == auth_update_user(user_uid, Some(custom_claims), None, users, profs, flt)
  IN  IF u.exc # "" \/ "audit" \in flt
      THEN UserEnded(Http(400, "Failed to update custom claims", u.events),
                     u.users, u.profiles)
      ELSE UserEnded(Returned(u.events \o
                       <<TargetEvent("custom_claims_updated", current_user.uid, user_uid)>>),
                     u.users, u.profiles)

\* update_user of the users router: roles and custom_claims are the Optional
\* fields of the body.  roles, when set, is passed on as a keyword argument that
\* AuthService.update_user does not accept.
update_user(user_uid, roles, custom_claims, current_user, users, profs, flt) ==
  LET u == auth_update_user(user_uid, custom_claims, None, users, profs, flt)
      logged == u.events \o
                <<TargetEvent("user_updated_by_admin", current_user.uid, user_uid)>>
  IN  IF roles # None
      THEN UserEnded(Http(400, "Failed to update user", <<>>), users, profs)
      ELSE IF u.exc # "" \/ "audit" \in flt
      THEN UserEnded(Http(400, "Failed to update user", u.events), u.users, u.profiles)
      ELSE IF ~u.found \/ ~ValidUserResponse(user_uid, u.profiles)
      THEN UserEnded(Http(400, "Failed to update user", logged), u.users, u.profiles)
      ELSE UserEnded(Returned(logged), u.users, u.profiles)

\* AuthService.create_user(custom_claims=...), uid being the uid that
\* firebase_auth.create_user gives the new account
auth_create_user(uid, custom_claims, users, profs, flt) ==
  LET end(exc, evs, us, ps) == [exc |-> exc, events |-> evs, users |-> us, profiles |-> ps]
      created == [users EXCEPT ![uid] = [exists |-> TRUE, disabled |-> FALSE,
                                         email_verified |-> FALSE,
                                         custom_claims |-> custom_claims]]
      written == [profs EXCEPT ![uid] = CreatedProfile]
  IN  IF "identity" \in flt THEN end("HTTPException", <<>>, users, profs)
      ELSE IF "profile_create" \in flt THEN end("HTTPException", <<>>, created, profs)
      ELSE IF "audit" \in flt THEN end("HTTPException", <<>>, created, written)
      ELSE end("", <<Event("user_created", uid)>>, created, written)

\* create_user of the users router: the dict that AuthService.create_user
\* returns holds neither roles, profile, preferences nor provider, which
\* UserResponse requires
create_user(uid, custom_claims, current_user, users, profs, flt) ==
  LET u == auth_create_user(uid, custom_claims, users, profs, flt)
  IN  IF u.exc # "" \/ "audit" \in flt
      THEN UserEnded(Http(400, "Failed to create user", u.events), u.users, u.profiles)
      ELSE UserEnded(Http(400, "Failed to create user", u.events \o
                       <<TargetEvent("user_created_by_admin", current_user.uid, uid)>>),
                     u.users, u.profiles)

\* get_user_by_id: its access check runs before the try block
get_user_by_id(user_uid, current_user, users, profs, flt) ==
  LET got == get_user_by_uid(user_uid, users, profs, flt)
  IN  IF ~validate_resource_access(user_uid, current_user, TRUE, TRUE)
      THEN IF "audit" \in flt
           THEN UserEnded(Raised("LoggingError", <<>>), users, profs)
           ELSE UserEnded(Http(403, "You don't have permission to view this user",
                               <<TargetEvent("unauthorized_user_access",
                                             current_user.uid, user_uid)>>),
                          users, profs)
      ELSE IF got.exc # ""
      THEN UserEnded(Http(500, "Failed to get user", <<>>), users, got.profiles)
      ELSE IF ~got.found
      THEN UserEnded(Http(404, "User not found", <<>>), users, got.profiles)
      ELSE IF ~ValidUserResponse(user_uid, got.profiles)
      THEN UserEnded(Http(500, "Failed to retrieve user", <<>>), users, got.profiles)
      ELSE UserEnded(Returned(<<>>), users, got.profiles)

\* a handler of the users router ended: the caller is answered
UserAnswer(r) ==
  /\ pc' = "done"
  /\ response' = AsResponse(r.out)
  /\ audit' = audit \o r.out.events
  /\ authUsers' = r.users
  /\ profiles' = r.profiles
  /\ UNCHANGED <<cred, guard, faults, principal, items, interactions, route, tasks>>

GetUserById ==
  /\ pc = "handler" /\ route.endpoint = "get_user_by_id"
  /\ UserAnswer(get_user_by_id(route.user_uid, principal[1], authUsers, profiles, faults))

AssignRoles ==
  /\ pc = "handler" /\ route.endpoint = "assign_roles"
  /\ UserAnswer(assign_roles(route.user_uid, route.roles[1], principal[1],
                             authUsers, profiles, faults))

UpdateCustomClaims ==
  /\ pc = "handler" /\ route.endpoint = "update_custom_claims"
  /\ UserAnswer(update_custom_claims(route.user_uid, route.custom_claims[1], principal[1],
                                     authUsers, profiles, faults))

UpdateUser ==
  /\ pc = "handler" /\ route.endpoint = "update_user"
  /\ UserAnswer(update_user(route.user_uid, route.roles, route.custom_claims, principal[1],
                            authUsers, profiles, faults))

\* firebase_auth.create_user gives the account a uid that no account has
CreateUser ==
  /\ pc = "handler" /\ route.endpoint = "create_user"
  /\ \E uid \in {u \in UIDs : ~authUsers[u].exists} :
       UserAnswer(create_user(uid, route.custom_claims[1], principal[1],
                              authUsers, profiles, faults))

-----------------------------------------------------------------------------
(* UsersSpec: requests to the users router, served one after another.       *)

RolePayloads == {{}, {"admin"}}
ClaimPayloads ==
  {[n \in {"x"} |-> Scalar("v1")], [n \in {"feature_flags"} |-> Scalar("v1")],
   [n \in {"roles"} |-> List({"admin"})]}

UserRoutes ==
  {Route("get_user_by_id", "", u, None, None, None) : u \in UIDs}
  \cup {Route("assign_roles", "", u, None, Some(r), None) : u \in UIDs, r \in RolePayloads}
  \cup {Route("update_custom_claims", "", u, None, None, Some(c)) :
          u \in UIDs, c \in ClaimPayloads}
  \cup {Route("update_user", "", u, None, r, c) :
          u \in UIDs, r \in {None, Some({"admin"})},
          c \in {None} \cup {Some(k) : k \in ClaimPayloads}}
  \cup {Route("create_user", "", "", None, None, Some(c)) :
          c \in {EmptyClaims} \cup ClaimPayloads}

\* the security logger may fail
UserFaultSets == {f \in SUBSET {"audit"} : Cardinality(f) <= MaxFaults}

\* "u1" is registered, has signed in before and may hold "admin"; "u2" is
\* unknown, or registered without or with a profile document
UsersInit ==
  /\ \E r \in {{}, {"admin"}}, a \in BOOLEAN, p \in BOOLEAN :
       /\ authUsers = [u \in UIDs |->
            IF u = "u1" \/ a
            THEN [exists |-> TRUE, disabled |-> FALSE, email_verified |-> TRUE,
                  custom_claims |-> EmptyClaims]
            ELSE NoUser]
       /\ profiles = [u \in UIDs |->
            IF u = "u1" \/ (a /\ p)
            THEN [exists |-> TRUE, roles |-> IF u = "u1" THEN r ELSE {},
                  last_login_at |-> "SERVER_TIMESTAMP", fields |-> ProfileFields]
            ELSE NoProfile]
  /\ items = [i \in ItemIds |-> NoItem]
  /\ pc = "idle"
  /\ cred = None
  /\ guard = Plain("active")
  /\ faults = {}
  /\ principal = None
  /\ response = NoResponse
  /\ audit = <<>>
  /\ interactions = <<>>
  /\ route = NoRoute
  /\ tasks = <<>>

\* a request to the users router arrives.  An account is created while a uid
\* is free.
UsersRequest ==
  /\ pc = "idle"
  /\ pc' = "start"
  /\ cred' \in ValidCreds
  /\ route' \in UserRoutes
  /\ route'.endpoint = "create_user" => \E u \in UIDs : ~authUsers[u].exists
  /\ guard' = Depends(route'.endpoint)
  /\ faults' \in UserFaultSets
  /\ principal' = None
  /\ response' = NoResponse
  /\ audit' = <<>>
  /\ interactions' = <<>>
  /\ UNCHANGED <<authUsers, profiles, items, tasks>>

UsersNext ==
  \/ UsersRequest
  \/ EndRequest
  \/ Security
  \/ GetCurrentUser
  \/ GetCurrentActiveUser
  \/ RoleChecker
  \/ GetUserById
  \/ AssignRoles
  \/ UpdateCustomClaims
  \/ UpdateUser
  \/ CreateUser

UsersSpec == UsersInit /\ [][UsersNext]_vars

-----------------------------------------------------------------------------
(* Properties of the guards, checked under GuardSpec *)

\* the request was let through to the route's handler
Allowed == pc = "handler" \/ (pc = "done" /\ response.status = 200)
\* the request was answered without reaching the handler
Denied == pc = "done" /\ response.status # 200
\* the guard of the route has decided
Decided == Allowed \/ Denied

User == principal[1]

\* C1: a principal whose account is disabled is denied by every composite guard
\* with 403 "Account is disabled", whatever its roles, claims, verification state
\* or ownership; it never reaches a finer-grained check or the handler.
C1_DisabledDeniedByEveryGuard ==
  (principal # None /\ User.disabled /\ guard \in StrictGuards)
    => /\ pc \in {"resolved", "done"}
       /\ pc = "done" => response = Response(403, "Account is disabled")

C1_Witness ==
  /\ pc = "done" /\ principal # None /\ User.disabled
  /\ guard.name = "roles" /\ guard.roles = require_admin /\ "admin" \in User.roles
  /\ response = Response(403, "Account is disabled")

\* C2: for an active principal the resource-access guard allows exactly when the
\* principal owns the resource, or admins are allowed and it holds "admin", or
\* moderators are allowed and it holds "moderator"; otherwise it answers 403.
C2_ResourceAccessExact ==
  (principal # None /\ ~User.disabled /\ guard.name = "resource" /\ Decided)
    => /\ Allowed <=> \/ guard.owner = User.uid
                      \/ (guard.allow_admin /\ "admin" \in User.roles)
                      \/ (guard.allow_moderator /\ "moderator" \in User.roles)
       /\ Denied => response =
            Response(403, "You don't have permission to access this resource")

C2_Witness ==
  /\ principal # None /\ ~User.disabled /\ guard.name = "resource"
  /\ guard.allow_admin /\ ~guard.allow_moderator
  /\ guard.owner # User.uid /\ User.roles = {"moderator"}
  /\ Denied

\* C3: on an active principal the claim guard answers "Missing required claim"
\* exactly when the key is absent, "Invalid claim value" exactly when the key is
\* present with another value, and allows exactly when it is present and equal.
C3_ClaimReasonsDistinct ==
  (principal # None /\ ~User.disabled /\ guard.name = "claim" /\ Decided)
    => LET present == guard.claim \in DOMAIN User.custom_claims
           equal == present /\ User.custom_claims[guard.claim] = guard.value
       IN  /\ (response = Response(403, "Missing required claim")) <=> ~present
           /\ (response = Response(403, "Invalid claim value")) <=> (present /\ ~equal)
           /\ Allowed <=> equal

C3_Witness ==
  /\ principal # None /\ ~User.disabled /\ guard.name = "claim"
  /\ guard.claim = "x" /\ guard.value = Scalar("v1")
  /\ "x" \in DOMAIN User.custom_claims /\ User.custom_claims["x"] = Scalar("v2")
  /\ response = Response(403, "Invalid claim value")

\* custom_claims["feature_flags"][flag] is truthy
FlagClaimTruthy(u, flag) ==
  /\ "feature_flags" \in DOMAIN u.custom_claims
  /\ \E p \in u.custom_claims["feature_flags"].m : p[1] = flag /\ Truthy(p[2])

-----------------------------------------------------------------------------
(* Properties of the resolver, checked under Spec *)

Token == cred[1]
Account == authUsers[Token.uid]
StrictStart == pc = "start" /\ guard \in StrictGuards /\ cred # None

\* a collaborator failure that the resolution of the current credential meets
FaultStrikes ==
  \/ "verifier" \in faults
  \/ /\ Token.status = "valid"
     /\ \/ "identity" \in faults
        \/ /\ Account.exists
           /\ \/ "profile_read" \in faults
              \/ (~profiles[Token.uid].exists /\ "profile_create" \in faults)
              \/ (~Account.disabled /\ "last_seen" \in faults)

\* C5: get_optional_current_user never raises: the route's handler is reached
\* with None when there is no credential and whenever get_current_user fails
\* on it (bad, expired or revoked token, unknown or disabled account,
\* collaborator or logger failure), and with a user only when
\* get_current_user returns one.
C5_OptionalNeverRaises ==
  [][(pc = "start" /\ guard.name = "optional")
       => /\ pc' = "handler" /\ response' = NoResponse
          /\ principal' # None
               => /\ cred # None
                  /\ get_current_user(Token, authUsers, profiles, faults).out.kind = "return"
                  /\ principal' = get_current_user(Token, authUsers, profiles, faults).user
          /\ ( \/ cred = None
               \/ Token.status # "valid"
               \/ ~Account.exists
               \/ Account.disabled
               \/ faults \cap {"verifier", "identity", "profile_read", "last_seen"} # {} )
               => principal' = None]_vars

C5_Witness ==
  /\ guard.name = "optional" /\ pc = "handler"
  /\ cred # None /\ Token.status = "expired" /\ "audit" \in faults
  /\ principal = None /\ response = NoResponse

\* the outcome of the guard about to run, were the security logger working
GuardOutcomeWithSink ==
  IF pc = "resolved" THEN get_current_active_user(User, TRUE)
  ELSE IF guard.name = "verified" THEN get_current_verified_user(User, TRUE)
  ELSE IF guard.name = "roles" THEN role_checker(guard.roles, User, TRUE)
  ELSE IF guard.name = "claim" THEN claim_checker(guard.claim, guard.value, User, TRUE)
  ELSE IF guard.name = "resource"
  THEN access_checker(guard.owner, guard.allow_admin, guard.allow_moderator, User, TRUE)
  ELSE feature_checker(guard.flag, User, TRUE)

\* C6: a failing audit sink never changes an access decision: with the security
\* logger failing, a failed resolution and a denying guard answer the caller
\* exactly as they do with the logger working.
C6_AuditFailureKeepsDecision ==
  [][("audit" \in faults)
       => /\ StrictStart
               => LET r == get_current_user(Token, authUsers, profiles, faults \ {"audit"})
                  IN  r.out.kind # "return" => response' = AsResponse(r.out)
          /\ (pc \in {"resolved", "active"} /\ GuardOutcomeWithSink.kind # "return")
               => response' = AsResponse(GuardOutcomeWithSink)]_vars

\* C7: get_current_user reports the verifier's reasons one to one: invalid,
\* expired and revoked tokens are answered with their own 401 detail.
C7_VerifierReasonsOneToOne ==
  (pc = "done" /\ guard \in StrictGuards /\ cred # None /\ faults = {})
    => /\ Token.status = "invalid"
            => response = Response(401, "Invalid authentication token")
       /\ Token.status = "expired"
            => response = Response(401, "Authentication token has expired")
       /\ Token.status = "revoked"
            => response = Response(401, "Authentication token has been revoked")

\* C8: with a verified token, an unknown user is answered 404 "User not found"
\* and a disabled account 403 "Account is disabled", not a generic
\* authentication failure.
C8_NotFoundAndDisabledClassified ==
  (pc = "done" /\ guard \in StrictGuards /\ cred # None /\ faults = {}
     /\ Token.status = "valid")
    => /\ ~Account.exists => response = Response(404, "User not found")
       /\ (Account.exists /\ Account.disabled)
            => response = Response(403, "Account is disabled")

\* C9: the last_login_at update is best-effort: with a verified token, an
\* existing account that is not disabled and its profile document in place,
\* get_current_user returns the user whether the update succeeds or fails.
C9_LastSeenBestEffort ==
  [][(StrictStart /\ Token.status = "valid" /\ Account.exists /\ ~Account.disabled
        /\ profiles[Token.uid].exists /\ faults \subseteq {"last_seen"})
       => (pc' = "resolved" /\ principal' # None)]_vars

\* C10: resolution fails closed: when the token verifier, the identity provider
\* or the profile store fails while a credential is resolved, no principal is
\* produced, and a route behind get_current_user answers 401 at once, so that
\* none of its guards and not its handler runs.
C10_FailsClosed ==
  [][(pc = "start" /\ cred # None /\ FaultStrikes)
       => /\ principal' = None
          /\ guard \in StrictGuards => (pc' = "done" /\ response'.status = 401)]_vars

C10_Witness ==
  /\ pc = "done" /\ guard \in StrictGuards /\ cred # None
  /\ Token.status = "valid" /\ Account.exists /\ ~Account.disabled
  /\ faults = {"profile_read"}
  /\ principal = None /\ response = Response(401, "Authentication failed")

-----------------------------------------------------------------------------
(* Properties of the audit trail *)

\* the security events written while serving the request that name uid
EventsNaming(uid) == {i \in 1..Len(audit) : audit[i].user_id = uid}

\* C11: every denial of a resolved principal is audited: when a request whose
\* principal was resolved is answered 403, by a guard or by the endpoint's own
\* access check, a security event naming that principal has been written.
C11_EveryDenialAudited ==
  (pc = "done" /\ principal # None /\ response.status = 403)
    => EventsNaming(User.uid) # {}

\* C12: every failure of get_current_user is audited: when the resolution of a
\* presented credential fails while the security logger works, a security event
\* has been written for it.
C12_EveryAuthFailureAudited ==
  (pc = "done" /\ guard \in StrictGuards /\ cred # None /\ principal = None
     /\ "audit" \notin faults)
    => audit # <<>>

\* the security events written so far hold ev
Audited(trail, ev) == \E i \in 1..Len(trail) : trail[i] = ev

\* C13: every role or custom-claim mutation is audited: an assign_roles, an
\* update_custom_claims or an update_user setting custom claims that answers
\* 200, and a user creation that AuthService.create_user completes, have written
\* a security event that names the account acted upon.
C13_MutationsAudited ==
  [][(pc = "handler" /\ route.endpoint \in {"assign_roles", "update_custom_claims",
                                            "update_user", "create_user"})
       => /\ (route.endpoint = "assign_roles" /\ response'.status = 200)
               => /\ Audited(audit', TargetEvent("roles_assigned", User.uid, route.user_uid))
                  /\ Audited(audit', Event("user_updated", route.user_uid))
          /\ (route.endpoint = "update_custom_claims" /\ response'.status = 200)
               => /\ Audited(audit', TargetEvent("custom_claims_updated",
                                                 User.uid, route.user_uid))
                  /\ Audited(audit', Event("user_updated", route.user_uid))
          /\ (route.endpoint = "update_user" /\ route.custom_claims # None
                /\ response'.status = 200)
               => /\ Audited(audit', TargetEvent("user_updated_by_admin",
                                                 User.uid, route.user_uid))
                  /\ Audited(audit', Event("user_updated", route.user_uid))
          /\ route.endpoint = "create_user"
               => \A u \in UIDs :
                    (~authUsers[u].exists /\ authUsers'[u].exists /\ profiles'[u].exists
                       /\ "audit" \notin faults)
                      => Audited(audit', Event("user_created", u))]_vars

C13_Witness ==
  /\ pc = "done" /\ route.endpoint = "assign_roles" /\ route.user_uid = "u2"
  /\ response.status = 200
  /\ profiles["u2"].roles = {"admin"}
  /\ authUsers["u2"].custom_claims = [n \in {"roles"} |-> List({"admin"})]
  /\ Audited(audit, TargetEvent("roles_assigned", "u1", "u2"))

-----------------------------------------------------------------------------
(* Frame properties of the guards and of the resolver *)

C15_ResolveWritesOnlyLastSeen ==
  [][(pc = "start" /\ cred # None)
       => \A u \in UIDs :
            \/ profiles'[u] = profiles[u]
            \/ /\ profiles[u].exists
               /\ profiles'[u] = [profiles[u] EXCEPT !.last_login_at = "SERVER_TIMESTAMP"]]_vars

-----------------------------------------------------------------------------
(* Properties of the item endpoints, checked under ItemsSpec *)

\* how the handler of the requested item route ends on the items collection its
ItemOutcomeOn(its) ==
  IF route.endpoint = "get_item" THEN get_item(route.item_id, principal, its, faults)
  ELSE IF route.endpoint = "update_item"
  THEN update_item(route.item_id, route.is_public, principal[1], its, faults)
  ELSE delete_item(route.item_id, principal[1], its, faults)

\* the caller holds neither "admin" nor "moderator"
NoPrivilege == principal = None \/ User.roles \cap {"admin", "moderator"} = {}

\* the items collection with a private item of somebody else under the
\* requested id
WithForeignPrivateItem ==
  [items EXCEPT ![route.item_id] =
     Item(CHOOSE u \in UIDs : principal = None \/ u # User.uid, FALSE, 0)]

\* C16: a denied access does not tell whether the item exists: a caller without
\* privilege gets from get_item, update_item and delete_item the same status and
\* detail for an id that no item has as for a private item of somebody else.
C16_DenialHidesExistence ==
  [][(pc = "handler" /\ route.endpoint \in {"get_item", "update_item", "delete_item"}
        /\ ~items[route.item_id].exists /\ NoPrivilege)
       => response' = AsResponse(ItemOutcomeOn(WithForeignPrivateItem).out)]_vars

\* C19: a request without credentials to create, update or delete an item is
\* answered 403 by the security dependency: its handler does not run, and the
\* items collection is left as it was.
C19_AnonymousWriteRejected ==
  [][/\ (pc = "start" /\ cred = None
           /\ route.endpoint \in {"create_item", "update_item", "delete_item"})
          => /\ pc' = "done" /\ response' = Response(403, "Not authenticated")
             /\ items' = items
     /\ (pc = "handler" /\ route.endpoint \in {"create_item", "update_item", "delete_item"})
          => (cred # None /\ principal # None)]_vars

C19_Witness ==
  /\ pc = "done" /\ cred = None /\ route.endpoint = "delete_item"
  /\ items[route.item_id].exists
  /\ response = Response(403, "Not authenticated")

\* C20: with the items collection working, get_item returns an existing item
\* exactly when it is public, or the caller is its owner, or the caller holds
\* "admin" or "moderator"; otherwise it answers 403.  So an anonymous caller
\* gets a public item and not a private one, and the owner gets its own.
C20_GetItemVisibility ==
  (pc = "done" /\ route.endpoint = "get_item" /\ items[route.item_id].exists
     /\ faults = {})
    => LET item_data == items[route.item_id]
           may == \/ item_data.is_public
                  \/ /\ principal # None
                     /\ \/ item_data.owner_uid = User.uid
                        \/ "admin" \in User.roles
                        \/ "moderator" \in User.roles
       IN  /\ response.status = 200 <=> may
           /\ ~may => response =
                Response(403, "You don't have permission to view this item")

C20_Witness ==
  /\ pc = "done" /\ route.endpoint = "get_item" /\ faults = {}
  /\ items[route.item_id].exists /\ ~items[route.item_id].is_public
  /\ principal # None /\ User.roles = {} /\ items[route.item_id].owner_uid = User.uid
  /\ response.status = 200

-----------------------------------------------------------------------------
(* Further properties of the guards, checked under GuardSpec *)

\* C17: the role guard lets an active principal through exactly when it holds
\* one of the required roles, and otherwise answers 403 "Insufficient
\* permissions"; require_admin asks for "admin", require_moderator for "admin"
\* or "moderator", so whoever passes require_admin passes require_moderator.
C17_RoleGuardExact ==
  /\ require_admin = {"admin"} /\ require_moderator = {"admin", "moderator"}
  /\ (principal # None /\ ~User.disabled /\ guard.name = "roles" /\ Decided)
       => /\ Allowed <=> (User.roles \cap guard.roles # {})
          /\ Denied => response = Response(403, "Insufficient permissions")
  /\ principal # None
       => (role_checker(require_admin, User, TRUE).kind = "return"
             => role_checker(require_moderator, User, TRUE).kind = "return")

C17_Witness ==
  /\ pc = "done" /\ principal # None /\ ~User.disabled
  /\ guard.name = "roles" /\ guard.roles = require_moderator
  /\ User.roles = {"moderator", "beta_tester"}
  /\ response.status = 200

\* C18: check_feature_flag never fails: for an anonymous caller and for a
\* principal with whatever roles and custom_claims it returns without raising,
\* false when nothing enables the flag, and the feature guard answers 200 or 403.
C18_FeatureFlagNeverFails ==
  /\ \A f \in FlagNames : check_feature_flag(f, None) = [raised |-> FALSE, enabled |-> FALSE]
  /\ (principal # None /\ guard.name = "feature")
       => /\ ~check_feature_flag(guard.flag, principal).raised
          /\ pc = "done" => response.status \in {200, 403}

-----------------------------------------------------------------------------
(* list_items of app/api/v1/items.py.  A filter is one where clause that    *)
(* query_documents applies; category stands for the equality filters on     *)
(* category, status and priority, which are built the same way.  The page   *)
(* asked for holds every matching document.                                 *)

\* an item document with the category it was created with
ItemIn(owner, public, category) ==
  [exists |-> TRUE, owner_uid |-> owner, is_public |-> public, view_count |-> 0,
   category |-> category]

Categories == {"general", "personal"}

Filter(field, value) == [field |-> field, operator |-> "==", value |-> value]

\* build_filters treating an anonymous caller's is_public like a signed-in one's
build_filters_trusting(is_public, owner_uid, category, current_user) ==
  (IF is_public # None THEN <<Filter("is_public", is_public[1])>>
   ELSE IF owner_uid = None THEN <<Filter("is_public", TRUE)>>
   ELSE <<>>)
  \o (IF category # None THEN <<Filter("category", category[1])>> ELSE <<>>)
  \o (IF owner_uid = None THEN <<>>
      ELSE IF current_user # None
              /\ validate_resource_access(owner_uid[1], current_user[1], TRUE, TRUE)
      THEN <<Filter("owner_uid", owner_uid[1])>>
      ELSE <<Filter("owner_uid", owner_uid[1]), Filter("is_public", TRUE)>>)

\* the filters list_items builds from its query parameters, each Optional
build_filters(is_public, owner_uid, category, current_user) ==
  (IF current_user = None THEN <<Filter("is_public", TRUE)>>
   ELSE IF is_public # None THEN <<Filter("is_public", is_public[1])>>
   ELSE IF owner_uid = None THEN <<Filter("is_public", TRUE)>>
   ELSE <<>>)
  \o (IF category # None THEN <<Filter("category", category[1])>> ELSE <<>>)
  \o (IF owner_uid = None THEN <<>>
      ELSE IF current_user # None
              /\ validate_resource_access(owner_uid[1], current_user[1], TRUE, TRUE)
      THEN <<Filter("owner_uid", owner_uid[1])>>
      ELSE <<Filter("owner_uid", owner_uid[1]), Filter("is_public", TRUE)>>)

\* FirestoreService.query_documents on the items collection: the ids of the
\* documents every where clause accepts
query_documents(its, filters) ==
  {i \in ItemIds : /\ its[i].exists
                   /\ \A k \in 1..Len(filters) : its[i][filters[k].field] = filters[k].value}

\* a handler returning a list of items
ReturnedList(ids) ==
  [kind |-> "return", status |-> 200, detail |-> "", events |-> <<>>, body |-> ids]

list_items(is_public, owner_uid, category, current_user, its, flt) ==
  IF "item_read" \in flt
  THEN Ended(Http(500, "Failed to list items", <<>>), its, <<>>)
  ELSE Ended(ReturnedList(query_documents(
               its, build_filters(is_public, owner_uid, category, current_user))),
             its, <<>>)

\* GET /items with its query parameters
ListRoute(is_public, owner_uid, category) ==
  [endpoint |-> "list_items", item_id |-> "", user_uid |-> "", is_public |-> is_public,
   roles |-> None, custom_claims |-> None, owner_uid |-> owner_uid, category |-> category]

\* the caller receives the items of the page
ListItems ==
  /\ pc = "handler" /\ route.endpoint = "list_items"
  /\ LET r == list_items(route.is_public, route.owner_uid, route.category,
                         principal, items, faults)
     IN  /\ pc' = "done"
         /\ response' = IF r.out.kind = "return"
                        THEN [status |-> 200, detail |-> "OK", body |-> r.out.body]
                        ELSE AsResponse(r.out)
         /\ UNCHANGED <<authUsers, profiles, cred, guard, faults, principal, audit,
                        items, interactions, route, tasks>>

-----------------------------------------------------------------------------
(* ListingSpec: requests to the two endpoints that also serve anonymous     *)
(* callers, get_item and list_items.                                        *)

ListingRoutes ==
  {Route("get_item", i, "", None, None, None) : i \in ItemIds}
  \cup {ListRoute(p, o, c) : p \in {None, Some(TRUE), Some(FALSE)},
                             o \in {None} \cup {Some(u) : u \in UIDs},
                             c \in {None} \cup {Some(c) : c \in Categories}}

\* both accounts are registered, "u1" may be disabled and holds no role,
\* "admin" or "moderator"; each account owns one item
ListingInit ==
  /\ authUsers \in {[u \in UIDs |-> [exists |-> TRUE, disabled |-> (u = "u1" /\ d),
                                     email_verified |-> TRUE,
                                     custom_claims |-> EmptyClaims]] : d \in BOOLEAN}
  /\ profiles \in {[u \in UIDs |-> [exists |-> TRUE,
                                    roles |-> IF u = "u1" THEN r ELSE {},
                                    last_login_at |-> "SERVER_TIMESTAMP",
                                    fields |-> ProfileFields]] :
                   r \in {{}, {"admin"}, {"moderator"}}}
  /\ items \in {[i \in ItemIds |-> IF i = "i1" THEN ItemIn("u2", b1, "general")
                                   ELSE ItemIn("u1", b2, c)] :
                b1 \in BOOLEAN, b2 \in BOOLEAN, c \in Categories}
  /\ pc = "idle"
  /\ cred = None
  /\ guard = Plain("active")
  /\ faults = {}
  /\ principal = None
  /\ response = NoResponse
  /\ audit = <<>>
  /\ interactions = <<>>
  /\ route = NoRoute
  /\ tasks = <<>>

\* a request arrives; a view is counted while the item's counter is below MaxViews
ListingRequest ==
  /\ pc = "idle"
  /\ pc' = "start"
  /\ cred' \in ValidCreds
  /\ route' \in ListingRoutes
  /\ (route'.endpoint = "get_item" /\ cred' # None
        /\ cred'[1].uid # items[route'.item_id].owner_uid)
       => items[route'.item_id].view_count < MaxViews
  /\ guard' = Plain("optional")
  /\ faults' \in ItemFaultSets
  /\ principal' = None
  /\ response' = NoResponse
  /\ audit' = <<>>
  /\ interactions' = <<>>
  /\ UNCHANGED <<authUsers, profiles, items, tasks>>

ListingNext ==
  \/ ListingRequest
  \/ EndRequest
  \/ GetOptionalCurrentUser
  \/ GetItem
  \/ ListItems

ListingSpec == ListingInit /\ [][ListingNext]_vars

\* the current request is a list_items that was answered with a page
ListAnswered ==
  pc = "done" /\ route.endpoint = "list_items" /\ response.status = 200

\* C21: whatever filters an anonymous caller passes to list_items, every item
\* of the page it receives is public
C21_AnonymousListsOnlyPublic ==
  (ListAnswered /\ cred = None) => \A i \in response.body : items[i].is_public

\* an anonymous caller asked for private items while one exists, and received
\* a page that holds an item
C21_Witness ==
  /\ ListAnswered /\ cred = None
  /\ route.is_public = Some(FALSE)
  /\ \E i \in ItemIds : items[i].exists /\ ~items[i].is_public
  /\ response.body # {}

-----------------------------------------------------------------------------
(* POST /auth/refresh of app/api/v1/auth.py.  A presented JWT is described  *)
(* by what jwt.decode finds: whether signature and expiry hold, the claim   *)
(* "type" ("None" when the token has none, as the tokens of                 *)
(* create_access_token) and the claim "sub" ("" when missing or empty).     *)

JWTs == [valid : BOOLEAN, type : {"refresh", "None"}, sub : {""} \cup UIDs]

\* refresh_token behind Depends(security); body is the subject of the access
\* token it returns.  The HTTPException that verify_token or get_user_by_uid
\* raises is re-raised as it is.
refresh_token(credentials, users, profs, flt) ==
  LET end(out, ps) == [out |-> out, profiles |-> ps]
      payload == credentials[1]
      got == get_user_by_uid(payload.sub, users, profs, flt)
  IN  IF credentials = None THEN end(Http(403, "Not authenticated", <<>>), profs)
      ELSE IF ~payload.valid
      THEN end(Http(401, "Could not validate credentials", <<>>), profs)
      ELSE IF payload.type # "refresh" THEN end(Http(401, "Invalid token type", <<>>), profs)
      ELSE IF payload.sub = "" THEN end(Http(401, "Invalid token", <<>>), profs)
      ELSE IF got.exc # "" THEN end(Http(500, "Failed to get user", <<>>), got.profiles)
      ELSE IF ~got.found \/ users[payload.sub].disabled
      THEN end(Http(401, "User not found or disabled", <<>>), got.profiles)
      ELSE end([kind |-> "return", status |-> 200, detail |-> "", events |-> <<>>,
                body |-> payload.sub], got.profiles)

RefreshToken ==
  /\ pc = "start" /\ route.endpoint = "refresh_token"
  /\ LET r == refresh_token(cred, authUsers, profiles, faults)
     IN  /\ pc' = "done"
         /\ profiles' = r.profiles
         /\ response' = IF r.out.kind = "return"
                        THEN [status |-> 200, detail |-> "OK", access_token |-> r.out.body]
                        ELSE AsResponse(r.out)
         /\ UNCHANGED <<authUsers, cred, guard, faults, principal, audit, items,
                        interactions, route, tasks>>

\* a refresh request arrives while the identity provider or the profile store
\* may fail
RefreshRequest ==
  /\ pc = "idle"
  /\ pc' = "start"
  /\ cred' \in {None} \cup {Some(t) : t \in JWTs}
  /\ route' = Route("refresh_token", "", "", None, None, None)
  /\ guard' = Plain("security")
  /\ faults' \in {f \in SUBSET {"identity", "profile_read", "profile_create"} :
                    Cardinality(f) <= MaxFaults}
  /\ principal' = None
  /\ response' = NoResponse
  /\ audit' = <<>>
  /\ interactions' = <<>>
  /\ UNCHANGED <<authUsers, profiles, items, tasks>>

RefreshNext ==
  \/ RefreshRequest
  \/ RefreshToken
  \/ EndRequest

\* the accounts are those Init starts with: "u1" unknown, or registered with
\* or without a profile document, enabled or disabled; "u2" unknown
RefreshSpec == Init /\ [][RefreshNext]_vars

\* C22: a refresh request that presents a token is answered with a new access
\* token only when the token verifies, has type "refresh" and a non-empty
\* subject, and the subject is a registered account that is not disabled; every
\* other presented token is answered 401 without an access token.
C22_RefreshOnlyForLiveSubject ==
  (pc = "done" /\ route.endpoint = "refresh_token" /\ cred # None)
    => LET t == cred[1]
           live == /\ t.valid /\ t.type = "refresh" /\ t.sub # ""
                   /\ authUsers[t.sub].exists /\ ~authUsers[t.sub].disabled
       IN  IF response.status = 200
           THEN live /\ response.access_token = t.sub
           ELSE ~live => response.status = 401

-----------------------------------------------------------------------------
(* interact_with_item of app/api/v1/items.py, served to two callers side by *)
(* side by two instances of the service.  Each caller has passed            *)
(* get_current_active_user.  get_document and update_document are separate  *)
(* calls on the store: a handler is at "start" before its read, at "write"  *)
(* between its read and its write, and at "done" once it answered.          *)

MaxLikes == 2

TaskIds == {"a", "b"}

\* update_document with a counter that the store increments by itself
update_counter_atomic(its, item_id, interaction_type, item_data) ==
  IF interaction_type = "like" THEN [its EXCEPT ![item_id].like_count = @ + 1]
  ELSE IF interaction_type = "unlike"
  THEN [its EXCEPT ![item_id].like_count = IF @ > 0 THEN @ - 1 ELSE 0]
  ELSE [its EXCEPT ![item_id].share_count = @ + 1]

\* update_document("items", item_id, {"like_count": new_count}), or share_count:
\* new_count is computed from item_data, the document as the handler read it
update_counter(its, item_id, interaction_type, item_data) ==
  IF interaction_type = "like"
  THEN [its EXCEPT ![item_id].like_count = item_data.like_count + 1]
  ELSE IF interaction_type = "unlike"
  THEN [its EXCEPT ![item_id].like_count =
          IF item_data.like_count > 0 THEN item_data.like_count - 1 ELSE 0]
  ELSE [its EXCEPT ![item_id].share_count = item_data.share_count + 1]

\* a request POST /items/{item_id}/interact reaches an instance that is not
\* serving one
Interact(t) ==
  /\ tasks[t].pc \in {"idle", "done"}
  /\ \E uid \in UIDs, item_id \in ItemIds, type \in {"like", "unlike", "share", "love"} :
       tasks' = [tasks EXCEPT ![t] =
         [pc |-> "start", uid |-> uid, item_id |-> item_id, interaction_type |-> type,
          item_data |-> NoItem, status |-> 0, interactions |-> <<>>]]
  /\ UNCHANGED <<authUsers, profiles, pc, cred, guard, faults, principal, response,
                 audit, items, interactions, route>>

\* the handler up to its update_document call: it reads the item and answers
\* 404, 403 or 400 by itself.  A counter is read for a like or a share while it
\* is below MaxLikes.
InteractRead(t) ==
  /\ tasks[t].pc = "start"
  /\ (tasks[t].interaction_type = "like" /\ items[tasks[t].item_id].exists)
       => items[tasks[t].item_id].like_count < MaxLikes
  /\ (tasks[t].interaction_type = "share" /\ items[tasks[t].item_id].exists)
       => items[tasks[t].item_id].share_count < MaxLikes
  /\ LET item_data == items[tasks[t].item_id]
         status == IF ~item_data.exists THEN 404
                   ELSE IF ~(item_data.is_public \/ item_data.owner_uid = tasks[t].uid)
                   THEN 403
                   ELSE IF tasks[t].interaction_type \notin {"like", "unlike", "share"}
                   THEN 400
                   ELSE 0
     IN  tasks' = [tasks EXCEPT ![t].pc = IF status = 0 THEN "write" ELSE "done",
                                ![t].item_data = item_data,
                                ![t].status = status]
  /\ UNCHANGED <<authUsers, profiles, pc, cred, guard, faults, principal, response,
                 audit, items, interactions, route>>

\* the handler from its update_document call on: the counter is written,
\* record_item_interaction adds its document for a like or a share
InteractWrite(t) ==
  /\ tasks[t].pc = "write"
  /\ items' = update_counter(items, tasks[t].item_id, tasks[t].interaction_type,
                             tasks[t].item_data)
  /\ tasks' = [tasks EXCEPT
       ![t].pc = "done",
       ![t].status = 200,
       ![t].interactions =
          IF tasks[t].interaction_type = "unlike" THEN <<>>
          ELSE <<Interaction(tasks[t].item_id, tasks[t].uid, tasks[t].interaction_type)>>]
  /\ UNCHANGED <<authUsers, profiles, pc, cred, guard, faults, principal, response,
                 audit, interactions, route>>

\* "u2" owns item "i1", public or private, that nobody liked or shared yet
LikesInit ==
  /\ authUsers = [u \in UIDs |-> [exists |-> TRUE, disabled |-> FALSE,
                                  email_verified |-> TRUE, custom_claims |-> EmptyClaims]]
  /\ profiles = [u \in UIDs |-> [exists |-> TRUE, roles |-> {},
                                 last_login_at |-> "SERVER_TIMESTAMP",
                                 fields |-> ProfileFields]]
  /\ items \in {[i \in ItemIds |->
                   IF i = "i1"
                   THEN [exists |-> TRUE, owner_uid |-> "u2", is_public |-> b,
                         view_count |-> 0, like_count |-> 0, share_count |-> 0]
                   ELSE NoItem] : b \in BOOLEAN}
  /\ tasks = [t \in TaskIds |->
                [pc |-> "idle", uid |-> "", item_id |-> "", interaction_type |-> "",
                 item_data |-> NoItem, status |-> 0, interactions |-> <<>>]]
  /\ pc = "idle"
  /\ cred = None
  /\ guard = Plain("active")
  /\ faults = {}
  /\ principal = None
  /\ response = NoResponse
  /\ audit = <<>>
  /\ interactions = <<>>
  /\ route = NoRoute

LikesNext ==
  \E t \in TaskIds : Interact(t) \/ InteractRead(t) \/ InteractWrite(t)

LikesSpec == LikesInit /\ [][LikesNext]_vars

\* C23: the counters are updated by read-then-write without concurrency
\* control: when two like (or two share) requests on one item have both read
\* the same stored count and both have written, the stored count is that count
\* plus one, not plus two.
C23_InterleavedLikesLoseOne ==
  \A t \in TaskIds, u \in TaskIds :
    (/\ t # u
     /\ tasks[t].pc = "done" /\ tasks[t].status = 200
     /\ tasks[u].pc = "done" /\ tasks[u].status = 200
     /\ tasks[t].item_id = tasks[u].item_id
     /\ tasks[t].interaction_type = tasks[u].interaction_type
     /\ tasks[t].interaction_type \in {"like", "share"}
     /\ tasks[t].item_data = tasks[u].item_data)
    => IF tasks[t].interaction_type = "like"
       THEN items[tasks[t].item_id].like_count = tasks[t].item_data.like_count + 1
       ELSE items[tasks[t].item_id].share_count = tasks[t].item_data.share_count + 1

\* two likes of item "i1" that both read like_count 0 have both been answered
\* 200, and the stored like_count is 1
C23_Witness ==
  /\ \A t \in TaskIds : /\ tasks[t].pc = "done" /\ tasks[t].status = 200
                        /\ tasks[t].item_id = "i1" /\ tasks[t].interaction_type = "like"
                        /\ tasks[t].item_data.like_count = 0
  /\ items["i1"].like_count = 1

\* C24: list_items shows a signed-in caller only public items and items the
\* caller may access: a page never holds a private item owned by somebody
\* else unless the caller holds "admin" or "moderator".
C24_ListHidesForeignPrivate ==
  (ListAnswered /\ principal # None /\ User.roles \cap {"admin", "moderator"} = {})
    => \A i \in response.body : items[i].is_public \/ items[i].owner_uid = User.uid

\* C26: on get_item and list_items the credential of a disabled account counts
\* as no credential: the handler answers what it answers an anonymous caller on
\* the same request, counts no view and records no interaction.
C26_DisabledSeesAnonymousView ==
  [][(pc = "handler" /\ cred # None /\ authUsers[cred[1].uid].disabled)
       => LET got == get_item(route.item_id, None, items, faults)
              listed == list_items(route.is_public, route.owner_uid, route.category,
                                   None, items, faults)
          IN  /\ response' =
                   IF route.endpoint = "get_item" THEN AsResponse(got.out)
                   ELSE IF listed.out.kind = "return"
                   THEN [status |-> 200, detail |-> "OK", body |-> listed.out.body]
                   ELSE AsResponse(listed.out)
              /\ items' = items
              /\ interactions' = <<>>]_vars

\* the disabled "u1" asked for its own private item and was answered 403
C26_Witness ==
  /\ pc = "done" /\ route.endpoint = "get_item"
  /\ cred # None /\ authUsers[cred[1].uid].disabled
  /\ items[route.item_id].owner_uid = cred[1].uid /\ ~items[route.item_id].is_public
  /\ response = Response(403, "You don't have permission to view this item")

\* C27: the roles that the role guards evaluate for a user are the roles field
\* of its profile document, which only a successful assign_roles changes, to the
\* roles assigned: an assign_roles that is answered an error and an
\* update_custom_claims, with a "roles" key or without, leave every user's
\* roles as they were.
C27_RolesFollowAssignRoles ==
  [][(pc = "handler" /\ route.endpoint \in {"assign_roles", "update_custom_claims"})
       => IF route.endpoint = "assign_roles" /\ response'.status = 200
          THEN /\ profiles'[route.user_uid].roles = route.roles[1]
               /\ \A u \in UIDs \ {route.user_uid} : profiles'[u].roles = profiles[u].roles
          ELSE \A u \in UIDs : profiles'[u].roles = profiles[u].roles]_vars

\* the part of C27 about update_custom_claims alone
C27_ClaimsLeaveRoles ==
  [][(pc = "handler" /\ route.endpoint = "update_custom_claims")
       => \A u \in UIDs : profiles'[u].roles = profiles[u].roles]_vars

\* C28: custom claims are replaced, not merged: once assign_roles(U, R) has
\* answered 200 the claim map of U is exactly {"roles": R}, and once
\* update_custom_claims(U, M) has answered 200 it is exactly M; no earlier claim
\* is left.
C28_ClaimsReplaced ==
  (pc = "done" /\ route.endpoint \in {"assign_roles", "update_custom_claims"}
     /\ response.status = 200)
    => authUsers[route.user_uid].custom_claims =
         IF route.endpoint = "assign_roles"
         THEN [n \in {"roles"} |-> List(route.roles[1])]
         ELSE route.custom_claims[1]

\* roles were assigned to an account that exists, and its claim map has the
\* single key "roles"
C28_Witness ==
  /\ pc = "done" /\ route.endpoint = "assign_roles" /\ response.status = 200
  /\ route.roles[1] = {"admin"}
  /\ DOMAIN authUsers[route.user_uid].custom_claims = {"roles"}

-----------------------------------------------------------------------------
(* delete_user and bulk_user_action of app/api/v1/users.py, with the        *)
(* AuthService calls behind them.                                           *)

MaxBatch == 2

\* the uids a request may name: the two accounts that sign in and a third one
AdminUIDs == UIDs \cup {"u3"}

\* AuthService.update_user(uid, disabled=value) that leaves the identity
\* provider as it is
auth_update_user_flag_unwritten(uid, field, value, users, profs, flt) ==
  LET end(exc, evs, us, ps) == [exc |-> exc, events |-> evs, users |-> us, profiles |-> ps]
      got == get_user_by_uid(uid, users, profs, flt)
  IN  IF "identity" \in flt \/ ~users[uid].exists
      THEN end("HTTPException", <<>>, users, profs)
      ELSE IF "last_seen" \in flt \/ ~profs[uid].exists
      THEN end("HTTPException", <<>>, users, profs)
      ELSE IF "audit" \in flt THEN end("HTTPException", <<>>, users, profs)
      ELSE end(IF got.exc # "" THEN "HTTPException" ELSE "",
               <<Event("user_updated", uid)>>, users, got.profiles)

\* AuthService.update_user(uid, disabled=value) and (uid, email_verified=value):
\* field is the keyword.  exc is "" when it returns.  The identity provider
\* keeps the flag when a later step fails.
auth_update_user_flag(uid, field, value, users, profs, flt) ==
  LET end(exc, evs, us, ps) == [exc |-> exc, events |-> evs, users |-> us, profiles |-> ps]
      updated == [users EXCEPT ![uid][field] = value]
      got == get_user_by_uid(uid, updated, profs, flt)
  IN  IF "identity" \in flt \/ ~users[uid].exists
      THEN end("HTTPException", <<>>, users, profs)
      ELSE IF "last_seen" \in flt \/ ~profs[uid].exists
      THEN end("HTTPException", <<>>, updated, profs)
      ELSE IF "audit" \in flt THEN end("HTTPException", <<>>, updated, profs)
      ELSE end(IF got.exc # "" THEN "HTTPException" ELSE "",
               <<Event("user_updated", uid)>>, updated, got.profiles)

\* AuthService.delete_user: the account, then its profile document
auth_delete_user(uid, users, profs, flt) ==
  LET end(exc, evs, us, ps) == [exc |-> exc, events |-> evs, users |-> us, profiles |-> ps]
      deleted == [users EXCEPT ![uid] = NoUser]
      removed == [profs EXCEPT ![uid] = NoProfile]
  IN  IF "identity" \in flt \/ ~users[uid].exists
      THEN end("HTTPException", <<>>, users, profs)
      ELSE IF "audit" \in flt THEN end("HTTPException", <<>>, deleted, removed)
      ELSE end("", <<Event("user_deleted", uid)>>, deleted, removed)

\* delete_user without its check of the caller's own uid
delete_user_any(user_uid, current_user, users, profs, flt) ==
  LET u == auth_delete_user(user_uid, users, profs, flt)
  IN  IF u.exc # "" \/ "audit" \in flt
      THEN UserEnded(Http(400, "Failed to delete user", u.events), u.users, u.profiles)
      ELSE UserEnded(Returned(u.events \o
                       <<TargetEvent("user_deleted_by_admin", current_user.uid, user_uid)>>),
                     u.users, u.profiles)

\* delete_user of the users router
delete_user(user_uid, current_user, users, profs, flt) ==
  LET u == auth_delete_user(user_uid, users, profs, flt)
  IN  IF user_uid = current_user.uid
      THEN UserEnded(Http(400, "Cannot delete your own account", <<>>), users, profs)
      ELSE IF u.exc # "" \/ "audit" \in flt
      THEN UserEnded(Http(400, "Failed to delete user", u.events), u.users, u.profiles)
      ELSE UserEnded(Returned(u.events \o
                       <<TargetEvent("user_deleted_by_admin", current_user.uid, user_uid)>>),
                     u.users, u.profiles)

\* the AuthService call that bulk_user_action makes for one uid; an action it
\* does not know raises ValueError
bulk_call(action, uid, users, profs, flt) ==
  IF action = "disable" THEN auth_update_user_flag(uid, "disabled", TRUE, users, profs, flt)
  ELSE IF action = "enable"
  THEN auth_update_user_flag(uid, "disabled", FALSE, users, profs, flt)
  ELSE IF action = "delete" THEN auth_delete_user(uid, users, profs, flt)
  ELSE IF action = "verify_email"
  THEN auth_update_user_flag(uid, "email_verified", TRUE, users, profs, flt)
  ELSE [exc |-> "ValueError", events |-> <<>>, users |-> users, profiles |-> profs]

\* bulk_user_action leaving its loop at the first uid that fails
bulk_user_action_stopping(action, user_uids, current_user, users, profs, flt) ==
  LET loop[k \in 0..Len(user_uids)] ==
        IF k = 0
        THEN [users |-> users, profiles |-> profs, events |-> <<>>,
              success_count |-> 0, failed_users |-> <<>>]
        ELSE LET before == loop[k - 1]
                 u == bulk_call(action, user_uids[k], before.users, before.profiles, flt)
             IN  IF before.failed_users # <<>> THEN before
                 ELSE [users |-> u.users, profiles |-> u.profiles,
                       events |-> before.events \o u.events,
                       success_count |-> before.success_count + (IF u.exc = "" THEN 1 ELSE 0),
                       failed_users |-> before.failed_users \o
                                        (IF u.exc = "" THEN <<>> ELSE <<user_uids[k]>>)]
      after == loop[Len(user_uids)]
  IN  IF \E k \in 1..Len(user_uids) : user_uids[k] = current_user.uid
      THEN UserEnded(Http(400, "Cannot perform bulk action on your own account", <<>>),
                     users, profs)
      ELSE IF "audit" \in flt
      THEN UserEnded(Http(500, "Bulk action failed", after.events),
                     after.users, after.profiles)
      ELSE UserEnded([kind |-> "return", status |-> 200, detail |-> "",
                      events |-> after.events \o
                                 <<Event("bulk_user_action", current_user.uid)>>,
                      body |-> [success_count |-> after.success_count,
                                failed_count |-> Len(after.failed_users),
                                failed_users |-> after.failed_users]],
                     after.users, after.profiles)

\* bulk_user_action of the users router: loop[k] is the state of the loop after
\* the first k uids
bulk_user_action(action, user_uids, current_user, users, profs, flt) ==
  LET loop[k \in 0..Len(user_uids)] ==
        IF k = 0
        THEN [users |-> users, profiles |-> profs, events |-> <<>>,
              success_count |-> 0, failed_users |-> <<>>]
        ELSE LET before == loop[k - 1]
                 u == bulk_call(action, user_uids[k], before.users, before.profiles, flt)
             IN  [users |-> u.users, profiles |-> u.profiles,
                  events |-> before.events \o u.events,
                  success_count |-> before.success_count + (IF u.exc = "" THEN 1 ELSE 0),
                  failed_users |-> before.failed_users \o
                                   (IF u.exc = "" THEN <<>> ELSE <<user_uids[k]>>)]
      after == loop[Len(user_uids)]
  IN  IF \E k \in 1..Len(user_uids) : user_uids[k] = current_user.uid
      THEN UserEnded(Http(400, "Cannot perform bulk action on your own account", <<>>),
                     users, profs)
      ELSE IF "audit" \in flt
      THEN UserEnded(Http(500, "Bulk action failed", after.events),
                     after.users, after.profiles)
      ELSE UserEnded([kind |-> "return", status |-> 200, detail |-> "",
                      events |-> after.events \o
                                 <<Event("bulk_user_action", current_user.uid)>>,
                      body |-> [success_count |-> after.success_count,
                                failed_count |-> Len(after.failed_users),
                                failed_users |-> after.failed_users]],
                     after.users, after.profiles)

\* POST /users/bulk-action with the fields of its body
BulkRoute(action, user_uids) ==
  [endpoint |-> "bulk_user_action", item_id |-> "", user_uid |-> "", is_public |-> None,
   roles |-> None, custom_claims |-> None, action |-> action, user_uids |-> user_uids]

DeleteUser ==
  /\ pc = "handler" /\ route.endpoint = "delete_user"
  /\ UserAnswer(delete_user(route.user_uid, principal[1], authUsers, profiles, faults))

\* the caller receives the counts of the loop
BulkUserAction ==
  /\ pc = "handler" /\ route.endpoint = "bulk_user_action"
  /\ LET r == bulk_user_action(route.action, route.user_uids, principal[1],
                               authUsers, profiles, faults)
     IN  /\ pc' = "done"
         /\ response' = IF r.out.kind = "return"
                        THEN [status |-> 200, detail |-> "OK", body |-> r.out.body]
                        ELSE AsResponse(r.out)
         /\ audit' = audit \o r.out.events
         /\ authUsers' = r.users
         /\ profiles' = r.profiles
         /\ UNCHANGED <<cred, guard, faults, principal, items, interactions, route, tasks>>

-----------------------------------------------------------------------------
(* AdminSpec: the administrator "u1" deletes, disables and enables          *)
(* accounts, and every account asks for routes behind the guards.           *)

AdminRoutes ==
  {Route("delete_user", "", u, None, None, None) : u \in AdminUIDs}
  \cup {BulkRoute(a, l) : a \in {"disable", "enable", "delete", "ban"},
                          l \in UNION {[1..n -> AdminUIDs] : n \in 1..MaxBatch}}

\* "u1" is an administrator; "u2" is registered, with or without a profile
\* document, and may hold "moderator"; "u3" is unknown or registered
AdminInit ==
  /\ \E r \in {{}, {"moderator"}}, p \in BOOLEAN, a \in BOOLEAN :
       /\ authUsers = [u \in AdminUIDs |->
            IF u = "u3" /\ ~a THEN NoUser
            ELSE [exists |-> TRUE, disabled |-> FALSE, email_verified |-> TRUE,
                  custom_claims |-> EmptyClaims]]
       /\ profiles = [u \in AdminUIDs |->
            IF (u = "u2" /\ ~p) \/ (u = "u3" /\ ~a) THEN NoProfile
            ELSE [exists |-> TRUE,
                  roles |-> IF u = "u1" THEN {"admin"} ELSE IF u = "u2" THEN r ELSE {},
                  last_login_at |-> "SERVER_TIMESTAMP", fields |-> ProfileFields]]
  /\ items = [i \in ItemIds |-> NoItem]
  /\ pc = "idle"
  /\ cred = None
  /\ guard = Plain("active")
  /\ faults = {}
  /\ principal = None
  /\ response = NoResponse
  /\ audit = <<>>
  /\ interactions = <<>>
  /\ route = NoRoute
  /\ tasks = <<>>

\* a request arrives: for an endpoint of the administrator, or for a route
\* behind one of the guards
AdminRequest ==
  /\ pc = "idle"
  /\ pc' = "start"
  /\ cred' \in ValidCreds
  /\ \/ route' \in AdminRoutes /\ guard' = Depends(route'.endpoint)
     \/ route' = NoRoute /\ guard' \in RouteGuards \ {Plain("optional")}
  /\ faults' \in UserFaultSets
  /\ principal' = None
  /\ response' = NoResponse
  /\ audit' = <<>>
  /\ interactions' = <<>>
  /\ UNCHANGED <<authUsers, profiles, items, tasks>>

AdminNext ==
  \/ AdminRequest
  \/ EndRequest
  \/ Security
  \/ GetCurrentUser
  \/ GuardSteps
  \/ DeleteUser
  \/ BulkUserAction

AdminSpec == AdminInit /\ [][AdminNext]_vars

\* C25: disabling takes effect on the next request.  The principal is built
\* from the stores on every request: once bulk_user_action "disable" has
\* answered 200, every uid it does not list as failed is disabled in the
\* identity provider, and while an account is disabled no request with its
\* token gets past the dependency of a guarded route: it is answered without
\* 200 before any guard lets it through, whatever roles the account holds.
C25_DisableTakesEffect ==
  /\ [][(pc = "handler" /\ route.endpoint = "bulk_user_action"
           /\ route.action = "disable" /\ response'.status = 200)
          => \A k \in 1..Len(route.user_uids) :
               \/ \E j \in 1..Len(response'.body.failed_users) :
                    response'.body.failed_users[j] = route.user_uids[k]
               \/ authUsers'[route.user_uids[k]].disabled]_vars
  /\ [](\A u \in UIDs :
          (pc \notin {"idle", "start"} /\ cred # None /\ cred[1].uid = u
             /\ authUsers[u].exists /\ authUsers[u].disabled)
          => pc = "done" /\ response.status \in {401, 403, 500})

\* "u2", enabled when the service started and holding "moderator", was
\* disabled and then asked for a route behind get_current_active_user with its
\* valid token: it was answered 401
C25_Witness ==
  /\ pc = "done" /\ route = NoRoute /\ guard = Plain("active")
  /\ cred = Some([uid |-> "u2", status |-> "valid"])
  /\ authUsers["u2"].exists /\ authUsers["u2"].disabled
  /\ profiles["u2"].exists /\ profiles["u2"].roles = {"moderator"}
  /\ response.status = 401

\* C29: bulk_user_action treats each listed uid on its own.  In a 200 answer
\* success_count + failed_count is the number of uids supplied and failed_users
\* names, as often as it fails, each uid whose call fails: for "disable" and
\* "enable" a uid without account or without profile document, for "delete" a
\* uid without account or listed before, for an unknown action every uid.  The
\* uids that do not fail are disabled, enabled or deleted wherever they stand
\* in the list.
C29_BulkIndependent ==
  [][(pc = "handler" /\ route.endpoint = "bulk_user_action" /\ response'.status = 200)
       => LET uids == route.user_uids
              body == response'.body
              fails(k) ==
                IF route.action \in {"disable", "enable"}
                THEN ~authUsers[uids[k]].exists \/ ~profiles[uids[k]].exists
                ELSE IF route.action = "delete"
                THEN ~authUsers[uids[k]].exists \/ \E j \in 1..(k - 1) : uids[j] = uids[k]
                ELSE TRUE
              Failing(u) == {k \in 1..Len(uids) : uids[k] = u /\ fails(k)}
              Listed(u) == {j \in 1..Len(body.failed_users) : body.failed_users[j] = u}
          IN  /\ body.success_count + body.failed_count = Len(uids)
              /\ body.failed_count = Len(body.failed_users)
              /\ \A u \in AdminUIDs : Cardinality(Listed(u)) = Cardinality(Failing(u))
              /\ \A k \in 1..Len(uids) :
                   ~fails(k) =>
                     IF route.action = "delete" THEN ~authUsers'[uids[k]].exists
                     ELSE authUsers'[uids[k]].disabled = (route.action = "disable")]_vars

\* a bulk disable of the unknown "u3" and then of "u2" was answered 200: "u3"
\* is listed as failed, one success is counted and "u2" is disabled
C29_Witness ==
  /\ pc = "done" /\ route.endpoint = "bulk_user_action" /\ route.action = "disable"
  /\ route.user_uids = <<"u3", "u2">>
  /\ response.status = 200
  /\ response.body = [success_count |-> 1, failed_count |-> 1, failed_users |-> <<"u3">>]
  /\ ~authUsers["u3"].exists /\ authUsers["u2"].disabled

\* C30: delete_user with the caller's own uid, and bulk_user_action with a list
\* that holds the caller's uid, are answered 400 and change no account and no
\* profile document, of the caller or of anybody else listed.
C30_NoSelfTarget ==
  [][(pc = "handler"
        /\ \/ route.endpoint = "delete_user" /\ route.user_uid = User.uid
           \/ /\ route.endpoint = "bulk_user_action"
              /\ \E k \in 1..Len(route.user_uids) : route.user_uids[k] = User.uid)
       => /\ response' = Response(400, IF route.endpoint = "delete_user"
                                       THEN "Cannot delete your own account"
                                       ELSE "Cannot perform bulk action on your own account")
          /\ authUsers' = authUsers
          /\ profiles' = profiles]_vars

\* the administrator asked to delete "u2" and itself in one bulk action: the
\* answer is 400 and "u2" is still registered
C30_Witness ==
  /\ pc = "done" /\ route.endpoint = "bulk_user_action" /\ route.action = "delete"
  /\ route.user_uids = <<"u2", "u1">>
  /\ cred = Some([uid |-> "u1", status |-> "valid"])
  /\ response = Response(400, "Cannot perform bulk action on your own account")
  /\ authUsers["u2"].exists /\ authUsers["u1"].exists

=============================================================================
